---- MODULE Spec2Model ----
(***************************************************************************)
(* Bank-statement parser: the message handler, the stage pipeline driver   *)
(* and the geometric stages, modelled from the Python sources.             *)
(*                                                                         *)
(* The module holds several state machines over disjoint variable groups:  *)
(*   Spec       handler.main + BankStatementParser.run over the stage list *)
(*   SpecScore  run_step applied to the ResultScorer step alone            *)
(*   SpecJoin   BuildColumnGroups.run (the clean_data/column_range join)   *)
(*   SpecRange  ExtractColumnRange (per-page column ranges)                *)
(*   SpecFormat FormatCleaner.format_row / run                             *)
(*   SpecRows   BuildRows.group_rows / create_rows_json                    *)
(*   SpecMerge  MergeRows (anchor merge, pairwise merge)                   *)
(*   SpecClean  CleanData.clean_dot_padded_words                           *)
(*   SpecScorer utils/result_scorer.score_parsed_result                    *)
(*   SpecHeader HeaderRecognition.run                                      *)
(*   SpecLimit  the page limit from the message to the stages              *)
(*   SpecVote   ExtractColumnRange.get_column_range, word by word           *)
(*   SpecGroup  HeaderExtraction._group_words_into_rows                     *)
(* A specification leaves the variables of the other machines unchanged.   *)
(***************************************************************************)
EXTENDS Integers, Sequences, FiniteSets, TLC

VARIABLES
  \* ---- handler.main / BankStatementParser ----
  msg,           \* the intake message (generic mode): job_id, user_id, source_key
  doc,           \* the PDF behind source_key: page count, text, valid rows per page
  pc,            \* position of the single thread of control
  stage,         \* index in Steps of the step run_step is executing (0: none)
  output_iterator, \* what step_instance.run() returned: "none" | "iter"
  spill,         \* lines written so far to the step's local output file
  step_outputs,  \* run(): step key -> name of the step whose upload it points to
  s3,            \* object store: step name -> uploaded stream (sequence of records)
  jobStatus,     \* status column of the job in the back-end chosen by user_id
  hist,          \* observations: started, active, completed, reads, faults, ...
  temp_dir,      \* the files present in JSONLManager.temp_dir (/tmp)
  \* ---- the stage machines, one record each ("idle" when not in use) ----
  join,          \* BuildColumnGroups.run
  rng,           \* ExtractColumnRange
  fmt,           \* FormatCleaner
  rws,           \* BuildRows
  mrg,           \* MergeRows
  cln,           \* CleanData
  scr,           \* score_parsed_result
  hdr,           \* HeaderRecognition
  lim,           \* the page limit: handler.main, BankStatementParser, LimitedPDF
  vot,           \* ExtractColumnRange.get_column_range
  grp            \* HeaderExtraction._group_words_into_rows

units == <<join, rng, fmt, rws>>
units2 == <<mrg, cln, scr, hdr, lim>>
units3 == <<vot, grp>>

Idle == [pc |-> "idle"]
Active(u) == u.pc # "idle"

Units2Idle == mrg = Idle /\ cln = Idle /\ scr = Idle /\ hdr = Idle /\ lim = Idle

Units3Idle == vot = Idle /\ grp = Idle

\* The stage machines with a record of their own, all idle.
UnitsOff == join = Idle /\ rng = Idle /\ fmt = Idle /\ rws = Idle /\ Units2Idle

UnitsIdle == UnitsOff /\ Units3Idle

plVars == <<msg, doc, pc, stage, output_iterator, spill, step_outputs, s3, jobStatus, hist, temp_dir>>

-----------------------------------------------------------------------------
(* Bounds of the pipeline machine *)
MaxDocPages == 2
MaxValidRows == 1

(***************************************************************************)
(* Python truthiness of the identifiers carried by the message.            *)
(* "none" is None, "empty" is the empty string.                            *)
(***************************************************************************)
Truthy(x) == x \notin {"none", "empty"}

JobIds == {"none", "empty", "j1"}
UserIds == {"none", "u1"}
SourceKeys == {"statement.pdf", "statement.txt"}

\* s3_utils.get_pdf_s3_results_key: "" unless the key ends in .pdf
get_pdf_s3_results_key(source_key) ==
  IF source_key = "statement.pdf" THEN "statement.result" ELSE ""

(***************************************************************************)
(* The step list run() iterates over (config/<bank_key>.yaml).  Step names *)
(* are the classes of steps/genericv4; the keys are the stream names the   *)
(* step classes pass to read_input_streaming.                              *)
(***************************************************************************)
Steps == <<
  [step |-> "HeaderExtraction",   inputs |-> {},                                       key |-> "headers"],
  [step |-> "HeaderRecognition",  inputs |-> {"headers"},                              key |-> "headers"],
  [step |-> "CleanData",          inputs |-> {"headers"},                              key |-> "clean_data"],
  [step |-> "ExtractColumnRange", inputs |-> {"headers", "clean_data"},                key |-> "column_range"],
  [step |-> "BuildColumnGroups",  inputs |-> {"headers", "clean_data", "column_range"}, key |-> "header_groups"],
  [step |-> "BuildRows",          inputs |-> {"header_groups"},                        key |-> "group_rows"],
  [step |-> "MergeRows",          inputs |-> {"group_rows"},                           key |-> "merge_rows"],
  [step |-> "FormatCleaner",      inputs |-> {"merge_rows"},                           key |-> "format_cleaner"],
  [step |-> "SaveFormat",         inputs |-> {"format_cleaner"},                       key |-> "save_format"],
  [step |-> "ResultScorer",       inputs |-> {},                                       key |-> "result_score"] >>

NSteps == Len(Steps)
ScoreIdx == CHOOSE i \in 1..NSteps : Steps[i].step = "ResultScorer"

\* The stream keys each step class reads with read_input_streaming.
ReadKeys(name) ==
  CASE name = "HeaderRecognition"  -> {"headers"}
    [] name = "CleanData"          -> {"headers"}
    [] name = "ExtractColumnRange" -> {"headers", "clean_data"}
    [] name = "BuildColumnGroups"  -> {"headers", "clean_data", "column_range"}
    [] name = "BuildRows"          -> {"header_groups"}
    [] name = "MergeRows"          -> {"group_rows"}
    [] name = "FormatCleaner"      -> {"merge_rows"}
    [] name = "SaveFormat"         -> {"format_cleaner"}
    [] OTHER                       -> {}

-----------------------------------------------------------------------------
(* Records on the streams: a page record is its page_number (>= 0); the    *)
(* header record carries a non-empty header list (HeaderRec) or an empty   *)
(* one (EmptyHeaderRec).                                                   *)
HeaderRec == 0 - 1
NoneRec == 0 - 2
EmptyHeaderRec == 0 - 3

\* A document: its pages, whether a page has words (text), whether the first
\* page with words has a row that scores as a header candidate, and the
\* number of valid transaction rows per page.
Docs ==
  { d \in [pages : 0..MaxDocPages, text : BOOLEAN, candidates : BOOLEAN,
            valid : [0..(MaxDocPages - 1) -> 0..MaxValidRows]] :
      /\ (d.pages = 0 => ~d.text)
      /\ (d.candidates => d.text)
      /\ \A p \in 0..(MaxDocPages - 1) : (p >= d.pages \/ ~d.candidates) => d.valid[p] = 0 }

\* HeaderExtraction._extract_headers on the first page with words, inside
\* the record run() yields: no candidate row gives the empty header list.
_extract_headers == IF doc.candidates THEN HeaderRec ELSE EmptyHeaderRec

RECURSIVE PageRange(_, _)
PageRange(i, n) == IF i >= n THEN <<>> ELSE <<i>> \o PageRange(i + 1, n)

RECURSIVE Repeat(_, _)
Repeat(x, n) == IF n <= 0 THEN <<>> ELSE <<x>> \o Repeat(x, n - 1)

\* Mutant of FormatCleanerYield: one record per page record of the input.
FormatCleanerYield_PerPage(pagesIn) == pagesIn

\* FormatCleaner.run, second pass: one record per row of the page that
\* format_row keeps, tagged with the page_number of its page record.
RECURSIVE FormatCleanerYield(_)
FormatCleanerYield(pagesIn) ==
  IF pagesIn = <<>> THEN <<>>
  ELSE Repeat(Head(pagesIn), doc.valid[Head(pagesIn)]) \o FormatCleanerYield(Tail(pagesIn))

\* One record per record of the driving stream, with its page_number.
PerPageYield(pagesIn) == pagesIn

\* The stream a step reads under `key`: step_input[key] is step_outputs[key].
InputStream(key) == s3[step_outputs[key]]

(***************************************************************************)
(* The records a step's run() yields, in order, given its input streams.   *)
(***************************************************************************)
Items(name) ==
  CASE name = "HeaderExtraction"   -> <<_extract_headers>>
    [] name = "HeaderRecognition"  -> <<Head(InputStream("headers"))>>
    [] name = "CleanData"          -> PageRange(0, doc.pages)
    [] name = "ExtractColumnRange" -> PerPageYield(InputStream("clean_data"))
    [] name = "BuildColumnGroups"  -> PerPageYield(InputStream("clean_data"))
    [] name = "BuildRows"          -> PerPageYield(InputStream("header_groups"))
    [] name = "MergeRows"          -> PerPageYield(InputStream("group_rows"))
    [] name = "FormatCleaner"      -> FormatCleanerYield(InputStream("merge_rows"))
    [] name = "SaveFormat"         -> <<NoneRec>>
    [] OTHER                       -> <<>>

\* run() raises before its first yield: HeaderExtraction on a PDF without
\* text, the header readers on an empty headers stream.
RaisesAtStart(name) ==
  CASE name = "HeaderExtraction" -> ~doc.text
    [] name \in {"HeaderRecognition", "CleanData", "ExtractColumnRange", "BuildColumnGroups"}
         -> InputStream("headers") = <<>>
    [] OTHER -> FALSE

-----------------------------------------------------------------------------
(* Job store *)
Backend == IF Truthy(msg.user_id) THEN "supabase" ELSE "dynamo"

\* The keyword parameters of update_job_status in each back-end.
Keywords(backend) ==
  IF backend = "supabase"
  THEN {"result_s3_path", "additional_fields", "num_pages", "result_score"}
  ELSE {"result_s3_path", "additional_fields", "num_pages", "result_score",
        "download_data", "failure_reason"}

\* update_job_status of a back-end: the new status, or "raise" (a keyword
\* the method does not have, the store unreachable, no such job).
BackendUpdate(backend, cur, status, kw, down) ==
  IF kw \notin Keywords(backend) THEN "raise"
  ELSE IF down THEN "raise"
  ELSE IF cur = "absent" THEN "raise"
  ELSE status

\* update_job_status of the selected back-end.
\* kw is the optional keyword the caller passes besides status.
update_job_status(cur, status, kw, down) == BackendUpdate(Backend, cur, status, kw, down)

\* The calls the pipeline issues: status and keyword.
PipelineCalls ==
  { <<"processing", "additional_fields">>, <<"failed", "additional_fields">>,
    <<"success", "download_data">>, <<"success", "result_score">> }

Stored(cur, r) == IF r = "raise" THEN cur ELSE r

-----------------------------------------------------------------------------
(* Local files.  A file of temp_dir is its name, split into the part before *)
(* the first "_" that get_temp_filepath puts there and the rest.            *)

\* JSONLManager.get_temp_filepath: "<job_id>_<step_name>.jsonl".
get_temp_filepath(job_id, step_name) == [prefix |-> job_id, name |-> step_name]

\* BaseStep.get_input_filepath: the local copy of the stream read as `key`.
InputFile(key) == get_temp_filepath(msg.job_id, <<"input", key>>)

\* BaseStep.get_output_filepath: the local file a step's records go to.
OutputFile(step_name) == get_temp_filepath(msg.job_id, <<"output", step_name>>)

\* The result files SaveFormat.__init__ opens: /tmp/output.<format>, the
\* same names for every job.
NoPrefix == "output."
FinalFiles == {[prefix |-> NoPrefix, name |-> <<"final", f>>] : f \in {"csv", "json", "xlsx", "jsonl"}}

\* Mutant of _cleanup_temp_files: nothing is removed.
_cleanup_temp_files_Skip(files) == files

\* BankStatementParser._cleanup_temp_files: what is left of temp_dir once
\* every file whose name starts with "<job_id>_" is removed.
_cleanup_temp_files(files) == {f \in files : f.prefix # msg.job_id}

-----------------------------------------------------------------------------
(* handler.main and BankStatementParser *)

HistInit ==
  [ started |-> {}, active |-> {}, completed |-> {}, reads |-> {},
    finalFault |-> FALSE, spillFault |-> FALSE, failedStage |-> 0,
    raisedOut |-> FALSE, scoreInner |-> "none", scoreBefore |-> "absent",
    result |-> "none", midStream |-> FALSE, cleaned |-> {},
    objFault |-> {}, successAfter |-> FALSE, rejected |-> {} ]

PipelineInit ==
  /\ msg \in [job_id : JobIds, user_id : UserIds, source_key : SourceKeys]
  /\ doc \in Docs
  /\ pc = "main"
  /\ stage = 0
  /\ output_iterator = "iter"
  /\ spill = <<>>
  /\ step_outputs = <<>>
  /\ s3 = <<>>
  /\ jobStatus = IF Truthy(msg.job_id) THEN "pending" ELSE "absent"
  /\ hist = HistInit
  /\ temp_dir = {}
  /\ UnitsIdle

\* main, lines 31-60: a message with a job id sets the job to processing;
\* any error of the job store is printed and processing continues.
MainSetProcessing ==
  /\ pc = "main"
  /\ \E down \in BOOLEAN :
       LET r == update_job_status(jobStatus, "processing", "additional_fields", down) IN
       /\ jobStatus' = IF msg.job_id # "none" /\ (down \/ jobStatus # "absent")
                       THEN Stored(jobStatus, r) ELSE jobStatus
       /\ hist' = hist
  /\ pc' = "parse"
  /\ UNCHANGED <<units3, units, units2, temp_dir, msg, doc, stage, output_iterator, spill, step_outputs, s3>>

\* main lines 63-71, get_results, run lines 142-161: build the parser, load
\* the config, derive the result key, fetch and open the PDF.
ParserRun ==
  /\ pc = "parse"
  /\ IF get_pdf_s3_results_key(msg.source_key) = ""
     THEN \* run returns {} (its finally clause cleans the temp files);
          \* get_results returns True; main returns 200
          /\ pc' = "done"
          /\ hist' = [hist EXCEPT !.result = "200"]
          /\ temp_dir' = _cleanup_temp_files(temp_dir)
     ELSE \E fetched \in BOOLEAN :
          /\ pc' = IF fetched THEN "loop" ELSE "run_except"
          /\ hist' = hist
          /\ temp_dir' = temp_dir
  /\ UNCHANGED <<units3, units, units2, msg, doc, stage, output_iterator, spill, step_outputs, s3, jobStatus>>

\* Where control goes when a step's required input is not in step_outputs
\* (run_step line 95, outside the try block).
MissingInputPc == "run_except"

\* Mutant of NextStep: the loop skips the second step.
NextStep_Skip(st) == IF st = 1 THEN 3 ELSE st + 1

\* run lines 188-189: the for loop takes the steps in list order.
NextStep(st) == st + 1

\* run line 188-189 and run_step lines 80-107 up to the call of run();
\* building the SaveFormat step opens its result files.
RunStepEnter ==
  /\ pc = "loop"
  /\ stage < NSteps
  /\ LET k == NextStep(stage) IN
     IF ~(Steps[k].inputs \subseteq DOMAIN step_outputs)
     THEN /\ pc' = MissingInputPc
          /\ UNCHANGED <<stage, hist, temp_dir>>
     ELSE /\ stage' = k
          /\ temp_dir' = IF Steps[k].step = "SaveFormat" THEN temp_dir \cup FinalFiles ELSE temp_dir
          /\ pc' = IF Steps[k].step = "ResultScorer" THEN "score_run" ELSE "open"
          /\ hist' = [hist EXCEPT !.started = @ \cup {k}, !.active = @ \cup {k},
                                  !.scoreBefore = IF k = ScoreIdx THEN jobStatus ELSE @]
  /\ output_iterator' = "iter"
  /\ UNCHANGED <<units3, units, units2, msg, doc, spill, step_outputs, s3, jobStatus>>

\* ResultScorer.run is a plain function: its body runs inside the call.
\* What the two early returns hand back to run_step.
ScorerEarlyReturn == "none"

ScorerRun ==
  /\ pc = "score_run"
  /\ IF ~Truthy(msg.source_key) \/ ~Truthy(msg.job_id)
     THEN /\ output_iterator' = ScorerEarlyReturn
          /\ jobStatus' = jobStatus
          /\ hist' = [hist EXCEPT !.scoreInner =
                        IF ~Truthy(msg.source_key) THEN "missing_key" ELSE "missing_id"]
     ELSE \E downloaded \in BOOLEAN, err \in BOOLEAN, down \in BOOLEAN :
          LET r == update_job_status(jobStatus, "success", "result_score", down) IN
          /\ output_iterator' = "iter"
          /\ jobStatus' = IF err THEN jobStatus ELSE Stored(jobStatus, r)
          /\ hist' = [hist EXCEPT
                        !.scoreInner = IF err THEN "error"
                                       ELSE IF r = "raise" THEN "store"
                                       ELSE IF ~downloaded THEN "download" ELSE @,
                        !.successAfter = @ \/ (~err /\ r = "success" /\ hist.objFault # {})]
  /\ pc' = "open"
  /\ UNCHANGED <<units3, units, units2, temp_dir, msg, doc, stage, spill, step_outputs, s3>>

\* write_output_streaming / write_jsonl_streaming up to the first next() on
\* the iterator: iterating None raises TypeError; a generator step starts
\* running and opens its inputs (get_input_filepath: the key must be in
\* step_input, the object must exist, the download must succeed).  The
\* output file exists from open() to the finally clause of
\* write_output_streaming; of the input files downloaded, those of the
\* readers that are not exhausted yet stay (held).
OpenInputs ==
  /\ pc = "open"
  /\ LET name == Steps[stage].step
         keys == ReadKeys(name) IN
     IF output_iterator = "none"
     THEN /\ pc' = "step_except"
          /\ hist' = hist
          /\ temp_dir' = temp_dir
     ELSE \E downloaded \in BOOLEAN, held \in SUBSET {InputFile(key) : key \in keys} :
          LET ok == /\ keys \subseteq (Steps[stage].inputs \cap DOMAIN step_outputs)
                    /\ \A key \in keys : step_outputs[key] \in DOMAIN s3
                    /\ (downloaded \/ keys = {})
          IN
          /\ pc' = IF ok /\ ~RaisesAtStart(name) THEN "write" ELSE "step_except"
          /\ hist' = IF ok
                     THEN [hist EXCEPT !.reads = @ \cup
                             {[stage |-> stage, key |-> key, src |-> step_outputs[key]] : key \in keys}]
                     ELSE IF ~downloaded /\ keys # {} /\ keys \subseteq DOMAIN step_outputs
                     THEN [hist EXCEPT !.objFault = @ \cup {[op |-> "download", stage |-> stage]}]
                     ELSE hist
          /\ temp_dir' = IF ok /\ ~RaisesAtStart(name)
                         THEN temp_dir \cup held \cup {OutputFile(name)}
                         ELSE temp_dir \cup held
  /\ UNCHANGED <<units3, units, units2, msg, doc, stage, output_iterator, spill, step_outputs, s3, jobStatus>>

\* One turn of the loop of write_jsonl_streaming for a step other than
\* SaveFormat: the generator yields its next record and a line is written,
\* or the step's code raises.
WriteItem ==
  /\ pc = "write"
  /\ Steps[stage].step # "SaveFormat"
  /\ Len(spill) < Len(Items(Steps[stage].step))
  /\ \E raises \in BOOLEAN :
       IF raises
       THEN /\ pc' = "step_except"
            /\ spill' = spill
            /\ temp_dir' = temp_dir \ {OutputFile(Steps[stage].step)}
            /\ hist' = [hist EXCEPT !.midStream = @ \/ spill # <<>>]
       ELSE /\ pc' = "write"
            /\ spill' = Append(spill, Items(Steps[stage].step)[Len(spill) + 1])
            /\ UNCHANGED <<temp_dir, hist>>
  /\ UNCHANGED <<units3, units, units2, msg, doc, stage, output_iterator, step_outputs, s3, jobStatus>>

\* What SaveFormat.run does with the boolean upload_file_to_s3 returns:
\* nothing, the statements that follow run either way.
AfterFinalUpload(uploaded) == "continue"

\* SaveFormat.run up to its only yield: the four result files are uploaded,
\* then update_result_in_job sets the job to success with download_data.
SaveFormatItem ==
  /\ pc = "write"
  /\ Steps[stage].step = "SaveFormat"
  /\ spill = <<>>
  /\ \E down \in BOOLEAN, uploaded \in BOOLEAN :
       LET r == IF AfterFinalUpload(uploaded) = "raise" \/ ~Truthy(msg.job_id) THEN "raise"
                ELSE update_job_status(jobStatus, "success", "download_data", down)
           faults == IF uploaded THEN hist.objFault
                     ELSE hist.objFault \cup {[op |-> "final", stage |-> stage]} IN
       /\ jobStatus' = Stored(jobStatus, r)
       /\ pc' = IF r = "raise" THEN "step_except" ELSE "write"
       /\ spill' = IF r = "raise" THEN spill ELSE <<NoneRec>>
       /\ hist' = [hist EXCEPT !.objFault = faults,
                               !.successAfter = @ \/ (r = "success" /\ faults # {}),
                               !.rejected =
                                 IF /\ Truthy(msg.job_id) /\ r = "raise"
                                    /\ BackendUpdate("supabase", jobStatus, "success", "download_data", down)
                                         # BackendUpdate("dynamo", jobStatus, "success", "download_data", down)
                                 THEN @ \cup {<<"success", "download_data">>} ELSE @]
       /\ temp_dir' = IF r = "raise" THEN temp_dir \ {OutputFile("SaveFormat")} ELSE temp_dir
  /\ UNCHANGED <<units3, units, units2, msg, doc, stage, output_iterator, step_outputs, s3>>

\* The iterator is exhausted: write_jsonl_streaming returns the count.  The
\* generator of run() is finished, and with it the readers it held: the
\* finally clause of read_input_streaming removes their files.
WriteEnd ==
  /\ pc = "write"
  /\ Len(spill) = Len(Items(Steps[stage].step))
  /\ pc' = "upload"
  /\ temp_dir' = temp_dir \ {InputFile(key) : key \in ReadKeys(Steps[stage].step)}
  /\ UNCHANGED <<units3, units, units2, msg, doc, stage, output_iterator, spill, step_outputs, s3, jobStatus, hist>>

\* save_output_to_s3: get_s3_step_key concatenates job_id (None raises
\* TypeError), the upload returning False raises RuntimeError; the finally
\* clause removes the local file either way.
UploadSpill ==
  /\ pc = "upload"
  /\ \E uploaded \in BOOLEAN :
       LET ok == uploaded /\ msg.job_id # "none" IN
       /\ s3' = IF ok THEN (Steps[stage].step :> spill) @@ s3 ELSE s3
       /\ pc' = IF ok THEN "register" ELSE "step_except"
       /\ hist' = [hist EXCEPT !.spillFault = @ \/ ~ok,
                               !.objFault = IF uploaded THEN @
                                            ELSE @ \cup {[op |-> "spill", stage |-> stage]}]
  /\ spill' = <<>>
  /\ temp_dir' = temp_dir \ {OutputFile(Steps[stage].step)}
  /\ UNCHANGED <<units3, units, units2, msg, doc, stage, output_iterator, step_outputs, jobStatus>>

\* run_step lines 113-123: register the output key, return to run's loop.
Register ==
  /\ pc = "register"
  /\ step_outputs' = (Steps[stage].key :> Steps[stage].step) @@ step_outputs
  /\ hist' = [hist EXCEPT !.completed = @ \cup {stage}, !.active = @ \ {stage}]
  /\ pc' = "loop"
  /\ UNCHANGED <<units3, units, units2, temp_dir, msg, doc, stage, output_iterator, spill, s3, jobStatus>>

\* Mutant of AfterStepExcept: the except clause swallows the error and the
\* loop of run goes on.
AfterStepExcept_Swallow == "loop"

\* Where run_step's except clause leaves control: it re-raises.
AfterStepExcept == "run_except"

\* run_step lines 125-140: log, mark the job failed for a logged-in user,
\* re-raise (a job-store error raised here propagates in its place).
StepExcept ==
  /\ pc = "step_except"
  /\ \E down \in BOOLEAN :
       LET r == update_job_status(jobStatus, "failed", "additional_fields", down) IN
       /\ jobStatus' = IF Truthy(msg.user_id) THEN Stored(jobStatus, r) ELSE jobStatus
       /\ hist' = [hist EXCEPT !.failedStage = stage,
                               !.active = @ \ {stage}]
  /\ pc' = AfterStepExcept
  /\ spill' = <<>>
  /\ UNCHANGED <<units3, units, units2, temp_dir, msg, doc, stage, output_iterator, step_outputs, s3>>

\* run lines 196-209: log, re-raise, close the PDF, clean the temp files;
\* get_results lets the exception through.
RunExcept ==
  /\ pc = "run_except"
  /\ pc' = "main_except"
  /\ temp_dir' = _cleanup_temp_files(temp_dir)
  /\ hist' = [hist EXCEPT !.raisedOut = TRUE, !.cleaned = temp_dir \ temp_dir']
  /\ UNCHANGED <<units3, units, units2, msg, doc, stage, output_iterator, spill, step_outputs, s3, jobStatus>>

\* What main hands to its caller after `raise parse_error` (line 130): the
\* enclosing try of main catches it (lines 134-136) and returns a 500 body.
MainAfterReraise == "500"

\* main lines 99-136.
MainExcept ==
  /\ pc = "main_except"
  /\ \E down \in BOOLEAN :
       LET r == update_job_status(jobStatus, "failed", "additional_fields", down) IN
       /\ jobStatus' = IF msg.job_id # "none" THEN Stored(jobStatus, r) ELSE jobStatus
       /\ hist' = [hist EXCEPT !.finalFault = (msg.job_id # "none" /\ down),
                               !.result = MainAfterReraise]
  /\ pc' = "done"
  /\ UNCHANGED <<units3, units, units2, temp_dir, msg, doc, stage, output_iterator, spill, step_outputs, s3>>

\* run lines 191-194 and main line 132: every step returned.
RunReturn ==
  /\ pc = "loop"
  /\ stage = NSteps
  /\ pc' = "done"
  /\ temp_dir' = _cleanup_temp_files(temp_dir)
  /\ hist' = [hist EXCEPT !.result = "200"]
  /\ UNCHANGED <<units3, units, units2, msg, doc, stage, output_iterator, spill, step_outputs, s3, jobStatus>>

PipelineNext ==
  \/ MainSetProcessing
  \/ ParserRun
  \/ RunStepEnter
  \/ ScorerRun
  \/ OpenInputs
  \/ WriteItem
  \/ SaveFormatItem
  \/ WriteEnd
  \/ UploadSpill
  \/ Register
  \/ StepExcept
  \/ RunExcept
  \/ MainExcept
  \/ RunReturn

Init == PipelineInit
Next == PipelineNext
vars == <<plVars, units, units2, units3>>
Spec == Init /\ [][Next]_vars

-----------------------------------------------------------------------------
(* run_step applied to the ResultScorer step alone, its context drawn from  *)
(* bounded sets: job_id and pdf_s3_key may be None or empty.                *)

ScoreSourceKeys == {"none", "statement.pdf"}

ScoreInit ==
  /\ msg \in [job_id : JobIds, user_id : UserIds, source_key : ScoreSourceKeys]
  /\ doc \in {d \in Docs : d.pages = 1 /\ d.candidates}
  /\ pc = "loop"
  /\ stage = ScoreIdx - 1
  /\ output_iterator = "iter"
  /\ spill = <<>>
  /\ step_outputs = <<>>
  /\ s3 = <<>>
  /\ jobStatus = IF Truthy(msg.job_id) THEN "success" ELSE "absent"
  /\ hist = [HistInit EXCEPT !.started = 1..(ScoreIdx - 1), !.completed = 1..(ScoreIdx - 1)]
  /\ temp_dir = FinalFiles
  /\ UnitsIdle

ScoreNext ==
  \/ RunStepEnter
  \/ ScorerRun
  \/ OpenInputs
  \/ WriteEnd
  \/ UploadSpill
  \/ Register
  \/ StepExcept

SpecScore == ScoreInit /\ [][ScoreNext]_vars

PlIdle ==
  /\ msg = Idle /\ doc = Idle /\ pc = "idle" /\ stage = 0 /\ output_iterator = "idle"
  /\ spill = <<>> /\ step_outputs = <<>> /\ s3 = <<>> /\ jobStatus = "idle" /\ hist = Idle
  /\ temp_dir = {}

Min(S) == CHOOSE x \in S : \A y \in S : x <= y
Max(S) == CHOOSE x \in S : \A y \in S : x >= y

-----------------------------------------------------------------------------
(* BuildColumnGroups.run: the join of clean_data and column_range by page.   *)
(* clean_data holds pages 0..JoinPages-1, ascending or descending; the       *)
(* column_range stream is revealed one record at a time: any page not yet    *)
(* read, or the end of the stream.  A column_range record carries, as its    *)
(* payload, the page it was computed for.                                    *)

JoinPages == 12
BufferLimit == 10
MaxLate == BufferLimit

Pages == 0..(JoinPages - 1)
EmptyRange == 0 - 1
ColumnRangeOf(p) == p

Clean(order, k) == IF order = "asc" THEN k - 1 ELSE JoinPages - k
CleanPos(order, p) == IF order = "asc" THEN p + 1 ELSE JoinPages - p

Remove(buffer, key) == [q \in (DOMAIN buffer) \ {key} |-> buffer[q]]

\* Mutant of Lookup: the entry with the lowest page is taken.
Lookup_Lowest(buffer, page_no) == buffer[Min(DOMAIN buffer)]

\* column_range_buffer.pop(page_no)
Lookup(buffer, page_no) == buffer[page_no]

\* Mutant of Overfull: eviction starts one entry early.
Overfull_Early(buffer) == Cardinality(DOMAIN buffer) >= BufferLimit

\* if len(column_range_buffer) > 10
Overfull(buffer) == Cardinality(DOMAIN buffer) > BufferLimit

JoinRecord(page_no, range) == [page_number |-> page_no, column_range |-> range]

JoinInit ==
  /\ join \in [ order : {"asc", "desc"}, i : {0}, pc : {"clean"}, read : {{}},
                ended : {FALSE}, buffer : {<<>>}, out : {<<>>},
                evicted : {{}}, late : {FALSE}, peak : {0} ]
  /\ rng = Idle /\ fmt = Idle /\ rws = Idle
  /\ PlIdle /\ Units2Idle /\ Units3Idle

\* for clean_data_item in clean_data_stream: the buffer is checked first.
JoinTakeClean ==
  /\ Active(join)
  /\ join.pc = "clean"
  /\ join.i < JoinPages
  /\ LET page_no == Clean(join.order, join.i + 1) IN
     IF page_no \in DOMAIN join.buffer
     THEN join' = [join EXCEPT
                     !.buffer = Remove(@, page_no),
                     !.out = Append(@, JoinRecord(page_no, Lookup(join.buffer, page_no))),
                     !.i = @ + 1]
     ELSE join' = [join EXCEPT !.pc = "scan"]
  /\ UNCHANGED <<units3, units2, plVars, rng, fmt, rws>>

\* One turn of `for column_data in column_range_stream`: the record is the
\* page's own (break) or goes to the buffer, which drops its lowest page
\* when it holds more than ten.
JoinScanRead ==
  /\ Active(join)
  /\ join.pc = "scan"
  /\ ~join.ended
  /\ \E col_page_no \in Pages \ join.read :
       LET page_no == Clean(join.order, join.i + 1)
           pos == Cardinality(join.read) + 1
           late == join.late \/ pos > CleanPos(join.order, col_page_no) + MaxLate
           stored == (col_page_no :> ColumnRangeOf(col_page_no)) @@ join.buffer
           min_page == Min(DOMAIN stored)
       IN
       IF col_page_no = page_no
       THEN join' = [join EXCEPT
                       !.read = @ \cup {col_page_no}, !.late = late,
                       !.out = Append(@, JoinRecord(page_no, ColumnRangeOf(col_page_no))),
                       !.pc = "clean", !.i = @ + 1]
       ELSE join' = [join EXCEPT
                       !.read = @ \cup {col_page_no}, !.late = late,
                       !.peak = Max({@, Cardinality(DOMAIN stored)}),
                       !.buffer = IF Overfull(stored) THEN Remove(stored, min_page) ELSE stored,
                       !.evicted = IF Overfull(stored) THEN @ \cup {min_page} ELSE @]
  /\ UNCHANGED <<units3, units2, plVars, rng, fmt, rws>>

\* The column_range stream is exhausted: page_column_range stays None, a
\* warning is logged and the empty dict is used.
JoinScanEnd ==
  /\ Active(join)
  /\ join.pc = "scan"
  /\ join' = [join EXCEPT
                !.ended = TRUE,
                !.out = Append(@, JoinRecord(Clean(join.order, join.i + 1), EmptyRange)),
                !.pc = "clean", !.i = @ + 1]
  /\ UNCHANGED <<units3, units2, plVars, rng, fmt, rws>>

JoinNext ==
  \/ JoinTakeClean
  \/ JoinScanRead
  \/ JoinScanEnd

SpecJoin == JoinInit /\ [][JoinNext]_vars

-----------------------------------------------------------------------------
(* ExtractColumnRange: the column ranges of one page from the headers, the   *)
(* page's vertical rule lines and its words.  Coordinates are integers on a  *)
(* small grid; a header's text is its index in the header list; a range is   *)
(* <<x0, x1>>; a map from header to range is a function on header indexes    *)
(* (the empty function for an empty dict and for None, which run treats      *)
(* alike).  Centres are compared doubled, so that halves stay integers.      *)

MaxCoord == 4
MaxHeaders == 4
MaxLines == 3
MaxWords == 2
MaxRangePages == 2

LineThreshold == 10
AlignTolerance == 3
FarRight == 100000
FarLeft == 0 - FarRight
UnsetRange == <<1000000, 0 - 1000000>>

Coords == 0..MaxCoord
Abs(x) == IF x < 0 THEN 0 - x ELSE x

HeaderBoxes == {b \in [x0 : Coords, x1 : Coords, bottom : {0}] : b.x0 < b.x1}

\* Header lists as HeaderExtraction leaves them: left to right, disjoint.
HeaderLists ==
  UNION { {h \in [1..n -> HeaderBoxes] : \A i \in 1..(n - 1) : h[i].x1 <= h[i + 1].x0}
          : n \in 2..MaxHeaders }

\* vertical_edges of the page after filter_lines_above_threshold, sorted.
LineLists ==
  UNION { {l \in [1..n -> Coords] : \A i \in 1..(n - 1) : l[i] <= l[i + 1]}
          : n \in 0..MaxLines }

\* valid: the word lies above the footer band (_is_valid_word).
WordBoxes ==
  {w \in [x0 : Coords, x1 : Coords, bottom : 1..MaxWords, valid : BOOLEAN] : w.x0 < w.x1}

WordLists == UNION { [1..n -> WordBoxes] : n \in 0..MaxWords }

is_intersection(word1, word2) ==
  ~(word1.x1 <= word2.x0 \/ word2.x1 <= word1.x0)

\* Mutant of TooFewLines: one line per header is asked for.
TooFewLines_PerHeader(headers, vertical_lines) == Len(vertical_lines) < Len(headers)

\* get_column_range_based_on_lines line 22: the rule-based ranges are given
\* up (None) when there are fewer lines than gaps between headers.
TooFewLines(headers, vertical_lines) == Len(vertical_lines) < Len(headers) - 1

get_column_range_based_on_lines(headers, sorted_lines) ==
  IF TooFewLines(headers, sorted_lines) THEN <<>>
  ELSE [idx \in 1..Len(headers) |->
          LET centre2 == headers[idx].x0 + headers[idx].x1
              found == {i \in 1..(Len(sorted_lines) - 1) :
                          2 * sorted_lines[i] <= centre2 /\ centre2 <= 2 * sorted_lines[i + 1]}
          IN IF found = {} THEN <<headers[idx].x0, headers[idx].x1>>
             ELSE <<sorted_lines[Min(found)], sorted_lines[Min(found) + 1]>>]

\* "left", "right" or "center" for one header and its range.
HeaderVote(header, range) ==
  LET left_distance == 2 * Abs(header.x0 - range[1])
      right_distance == 2 * Abs(header.x1 - range[2])
      center_distance == Abs((header.x0 + header.x1) - (range[1] + range[2]))
      tolerance == 2 * AlignTolerance
      min_distance == Min({left_distance, right_distance, center_distance})
  IN IF left_distance <= tolerance /\ left_distance <= right_distance
          /\ left_distance <= center_distance THEN "left"
     ELSE IF right_distance <= tolerance /\ right_distance <= left_distance
          /\ right_distance <= center_distance THEN "right"
     ELSE IF center_distance <= tolerance /\ center_distance <= left_distance
          /\ center_distance <= right_distance THEN "center"
     ELSE IF min_distance = left_distance THEN "left"
     ELSE IF min_distance = right_distance THEN "right"
     ELSE "center"

get_header_alignment(header_range, headers) ==
  LET score(a) == Cardinality({i \in DOMAIN header_range :
                                 HeaderVote(headers[i], header_range[i]) = a})
  IN IF DOMAIN header_range = {} THEN "center"
     ELSE IF score("left") > score("right") /\ score("left") > score("center") THEN "left"
     ELSE IF score("right") > score("left") /\ score("right") > score("center") THEN "right"
     ELSE "center"

check_range_validity(column_ranges, header_text, range) ==
  \A key \in DOMAIN column_ranges :
    key # header_text =>
      ~is_intersection(range, [x0 |-> column_ranges[key][1], x1 |-> column_ranges[key][2]])

\* The `for header in headers` loop of get_column_range for one word, from
\* header i on; the break leaves the loop with header_range as it is.
RECURSIVE HeaderLoop(_, _, _, _, _)
HeaderLoop(word, headers, i, header_range, num_of_lines_iterated) ==
  IF i > Len(headers) THEN header_range
  ELSE IF is_intersection(word, headers[i])
  THEN LET x == IF i \in DOMAIN header_range THEN header_range[i] ELSE UnsetRange
           x0_r == Min({word.x0, headers[i].x0, x[1]})
           x1_r == Max({word.x1, headers[i].x1, x[2]})
       IN IF ~check_range_validity(header_range, i, [x0 |-> x0_r, x1 |-> x1_r])
             /\ num_of_lines_iterated > LineThreshold
          THEN header_range
          ELSE HeaderLoop(word, headers, i + 1, (i :> <<x0_r, x1_r>>) @@ header_range,
                          num_of_lines_iterated)
  ELSE HeaderLoop(word, headers, i + 1, header_range, num_of_lines_iterated)

\* The `for word in words` loop of get_column_range from word k on.
RECURSIVE WordLoop(_, _, _, _, _, _)
WordLoop(words, headers, k, header_range, curr_y_bottom, num_of_lines_iterated) ==
  IF k > Len(words) THEN header_range
  ELSE LET y_bottom == Max({words[k].bottom, curr_y_bottom})
           n == IF y_bottom > curr_y_bottom THEN num_of_lines_iterated + 1
                ELSE num_of_lines_iterated
       IN WordLoop(words, headers, k + 1,
                   IF words[k].valid THEN HeaderLoop(words[k], headers, 1, header_range, n)
                   ELSE header_range,
                   y_bottom, n)

get_column_range(words, headers) ==
  WordLoop(words, headers, 1, <<>>, Max({headers[i].bottom : i \in 1..Len(headers)}), 0)

adjust_missing_ranges(headers, col_ranges) ==
  LET dominant_align == get_header_alignment(col_ranges, headers) IN
  [i \in 1..Len(headers) |->
     IF i \in DOMAIN col_ranges THEN col_ranges[i]
     ELSE IF dominant_align = "left" /\ i + 1 <= Len(headers)
     THEN LET next_header_x0 == IF i + 1 \in DOMAIN col_ranges THEN col_ranges[i + 1][1]
                                ELSE headers[i + 1].x0
          IN <<headers[i].x0, Max({next_header_x0, headers[i].x1})>>
     ELSE IF dominant_align = "right" /\ i > 1
     THEN LET prev_header_x1 == IF i - 1 \in DOMAIN col_ranges THEN col_ranges[i - 1][2]
                                ELSE headers[i - 1].x1
          IN <<Min({prev_header_x1, headers[i].x0}), headers[i].x1>>
     ELSE <<headers[i].x0, headers[i].x1>>]

\* The headers are in x0 order: the first and the last of the sorted list
\* are the first and the last of the list.
adjust_start_and_end_header_range(headers, col_ranges) ==
  LET first_key == 1
      last_key == Len(headers)
      opened == IF first_key \in DOMAIN col_ranges
                THEN [col_ranges EXCEPT ![first_key] = <<FarLeft, @[2]>>] ELSE col_ranges
  IN IF last_key \in DOMAIN opened
     THEN [opened EXCEPT ![last_key] = <<@[1], FarRight>>] ELSE opened

\* x1 of header i is compared with, and cut to, the x0 of the next header.
correct_overlapped_headers(headers, column_range) ==
  [i \in DOMAIN column_range |->
     IF i < Len(headers) /\ column_range[i][2] > headers[i + 1].x0
     THEN <<column_range[i][1], headers[i + 1].x0>>
     ELSE column_range[i]]

RangeInit ==
  /\ rng \in { r \in [ pc : {"start"}, headers : HeaderLists, lines : LineLists,
                       words : WordLists, is_copy : BOOLEAN, page_number : {0},
                       column_range : {<<>>}, previous_column_range : {<<>>},
                       path : {"none"} ] :
                 r.lines = <<>> \/ r.words = <<>> }
  /\ join = Idle /\ fmt = Idle /\ rws = Idle
  /\ PlIdle /\ Units2Idle /\ Units3Idle

CopiesPrevious ==
  rng.is_copy /\ rng.page_number > 0 /\ rng.previous_column_range # <<>>

\* run line 284-285: a later page of a copied header list takes the ranges
\* of the page before.
RangeCopy ==
  /\ Active(rng)
  /\ rng.pc = "start"
  /\ CopiesPrevious
  /\ rng' = [rng EXCEPT !.column_range = rng.previous_column_range,
                        !.pc = "yield", !.path = "copy"]
  /\ UNCHANGED <<units3, units2, plVars, join, fmt, rws>>

\* run lines 288-298: the rule-based ranges.
RangeLines ==
  /\ Active(rng)
  /\ rng.pc = "start"
  /\ ~CopiesPrevious
  /\ LET column_range == get_column_range_based_on_lines(rng.headers, rng.lines) IN
     rng' = [rng EXCEPT !.column_range = column_range,
                        !.pc = IF column_range = <<>> THEN "words" ELSE "finalize",
                        !.path = "lines"]
  /\ UNCHANGED <<units3, units2, plVars, join, fmt, rws>>

\* run lines 299-302: the word-voting fallback and the alignment repair.
RangeWords ==
  /\ Active(rng)
  /\ rng.pc = "words"
  /\ rng' = [rng EXCEPT
               !.column_range =
                  adjust_missing_ranges(rng.headers, get_column_range(rng.words, rng.headers)),
               !.pc = "finalize", !.path = "words"]
  /\ UNCHANGED <<units3, units2, plVars, join, fmt, rws>>

\* run lines 304-305.
RangeFinalize ==
  /\ Active(rng)
  /\ rng.pc = "finalize"
  /\ rng' = [rng EXCEPT
               !.column_range =
                  correct_overlapped_headers(rng.headers,
                    adjust_start_and_end_header_range(rng.headers, rng.column_range)),
               !.pc = "yield"]
  /\ UNCHANGED <<units3, units2, plVars, join, fmt, rws>>

\* run lines 306-314: the page's record is yielded, the next page begins.
RangeYield ==
  /\ Active(rng)
  /\ rng.pc = "yield"
  /\ rng' = [rng EXCEPT
               !.previous_column_range = rng.column_range,
               !.page_number = @ + 1,
               !.pc = IF rng.page_number + 1 < MaxRangePages THEN "start" ELSE "end"]
  /\ UNCHANGED <<units3, units2, plVars, join, fmt, rws>>

RangeNext ==
  \/ RangeCopy
  \/ RangeLines
  \/ RangeWords
  \/ RangeFinalize
  \/ RangeYield

SpecRange == RangeInit /\ [][RangeNext]_vars

-----------------------------------------------------------------------------
(* FormatCleaner.format_row and the second pass of run, for one mapped row.  *)
(* A row is the list of its <<key, value>> items in dict order.  Values are  *)
(* strings: NoneValue stands for None, a float is written "f:...", a typed   *)
(* date is the ISO date.                                                     *)

MaxRowKeys == 3

NoneValue == "<None>"
RowKeys == {"date", "particulars", "debit", "balance", "amount"}
RawValues == {NoneValue, "", "abc", "1,000.00", "01/02/2024"}
RawDates == {NoneValue, "", "abc", "01/02/2024"}

\* conversions.currency_string_to_float: None for a non-string, an empty
\* string or one without a digit; else the last number of the string.
currency_string_to_float(s) ==
  CASE s = NoneValue    -> NoneValue
    [] s = ""           -> NoneValue
    [] s = "abc"        -> NoneValue
    [] s = "1,000.00"   -> "f:1000.0"
    [] s = "01/02/2024" -> "f:2024.0"
    [] OTHER            -> NoneValue

\* date_parser.parse_date_us_format: month first; None when dateutil raises.
parse_date_us_format(date_string) ==
  IF date_string = "01/02/2024" THEN "2024-01-02" ELSE NoneValue

\* date_parser.parse_date_eu_format: day first.
parse_date_eu_format(date_string) ==
  IF date_string = "01/02/2024" THEN "2024-02-01" ELSE NoneValue

\* str(value)
Str(value) == IF value = NoneValue THEN "None" ELSE value

\* HEADER_TYPES and the conversion chosen for a key.
Convert(key, value, date_country_format) ==
  CASE key \in {"debit", "credit", "balance"} -> currency_string_to_float(value)
    [] key = "date" ->
         IF date_country_format = "US" THEN parse_date_us_format(value)
         ELSE IF date_country_format = "EU" THEN parse_date_eu_format(value)
         ELSE value
    [] key = "particulars" -> Str(value)
    [] OTHER -> value

\* row.get(key)
Get(row, key) ==
  IF \E i \in 1..Len(row) : row[i][1] = key
  THEN row[CHOOSE i \in 1..Len(row) : row[i][1] = key][2]
  ELSE NoneValue

\* Mutant of ShouldDrop: the amount is not looked at.
ShouldDrop_NoAmount(row) ==
  Get(row, "date") = NoneValue \/ Get(row, "balance") = NoneValue

\* format_row line 60.
ShouldDrop(row) ==
  /\ (Get(row, "date") = NoneValue \/ Get(row, "balance") = NoneValue)
  /\ (Get(row, "date") = NoneValue \/ Get(row, "amount") = NoneValue)

MappedRows ==
  UNION { {r \in [1..n -> RowKeys \X RawValues] :
             /\ \A i, j \in 1..n : i # j => r[i][1] # r[j][1]
             /\ \A i \in 1..n : r[i][1] = "date" => r[i][2] \in RawDates}
          : n \in 0..MaxRowKeys }

FormatInit ==
  /\ fmt \in { [ pc |-> "loop", mapped |-> m, row |-> m, k |-> 0,
                  date_country_format |-> f, result |-> "none" ]
                : m \in MappedRows, f \in {"US", "EU"} }
  /\ join = Idle /\ rng = Idle /\ rws = Idle
  /\ PlIdle /\ Units2Idle /\ Units3Idle

\* One turn of `for key, value in row.items()`: the value is converted in
\* place, then the row is tested; None is returned at once when it fails.
FormatKey ==
  /\ Active(fmt)
  /\ fmt.pc = "loop"
  /\ fmt.k < Len(fmt.row)
  /\ LET k == fmt.k + 1
         key == fmt.row[k][1]
         row == [fmt.row EXCEPT ![k] = <<key, Convert(key, fmt.row[k][2], fmt.date_country_format)>>]
     IN fmt' = [fmt EXCEPT
                  !.row = row, !.k = k,
                  !.pc = IF ShouldDrop(row) THEN "done" ELSE "loop",
                  !.result = IF ShouldDrop(row) THEN "dropped" ELSE @]
  /\ UNCHANGED <<units3, units2, plVars, join, rng, rws>>

\* The loop is over: format_row returns the row, and run yields it with its
\* page_number when it is truthy (an empty dict is not).
FormatReturn ==
  /\ Active(fmt)
  /\ fmt.pc = "loop"
  /\ fmt.k = Len(fmt.row)
  /\ fmt' = [fmt EXCEPT
               !.pc = "done",
               !.result = IF fmt.row # <<>> THEN "emitted" ELSE "dropped",
               !.row = IF fmt.row # <<>> THEN Append(fmt.row, <<"page_number", "0">>) ELSE @]
  /\ UNCHANGED <<units3, units2, plVars, join, rng, rws>>

FormatNext ==
  \/ FormatKey
  \/ FormatReturn

SpecFormat == FormatInit /\ [][FormatNext]_vars

-----------------------------------------------------------------------------
(* BuildRows: group_rows (stage A) and create_rows_json (stage B) for one    *)
(* page with a particulars column and a balance column.  A word is its       *)
(* vertical box [top, bottom] with top <= bottom; a sentence of stage A      *)
(* also carries the words merged into it.                                    *)

MaxY == 2
MaxColWords == 2

YCoords == 0..MaxY
RowWords == {w \in [top : YCoords, bottom : YCoords] : w.top <= w.bottom}
ColumnLists(n) == UNION { [1..k -> RowWords] : k \in 0..n }

\* Tolerances calculate_dynamic_y_tolerance hands out: 3.0 on short columns,
\* 2.0 on pages without particulars words, and values from 0 (tightly
\* packed) upwards from the statistics of the gaps.
Tolerances == {0, 1, 2, 3}

\* The horizontal rule lines of a page: their y0.
LineSets == {{}} \cup {{y} : y \in YCoords}

\* `last` is the word merged last and `joins` the pairs of consecutive words
\* the sentence has merged (bookkeeping of the model).
NoneItem == [top |-> 0 - 1, bottom |-> 0 - 1, members |-> {},
             last |-> [top |-> 0 - 1, bottom |-> 0 - 1], joins |-> {}]
Sentence(w) == [top |-> w.top, bottom |-> w.bottom, members |-> {w},
                last |-> w, joins |-> {}]

\* Mutant of SortByTop: the items stay in input order.
SortByTop_Unsorted(items) == items

\* sorted(items, key=top): stable.
RECURSIVE SortByTop(_)
SortByTop(items) ==
  IF Len(items) <= 1 THEN items
  ELSE LET rest == SortByTop(Tail(items))
           first == Head(items)
           before == Cardinality({i \in 1..Len(rest) : rest[i].top < first.top})
       IN SubSeq(rest, 1, before) \o <<first>> \o SubSeq(rest, before + 1, Len(rest))

_crosses_horizontal(horizontal_lines, bottom_y, top_y) ==
  \E y_line \in horizontal_lines : bottom_y < y_line /\ y_line < top_y

\* Mutant of MergedBottom: the bottom of the word merged last.
MergedBottom_Last(sentence_bottom, word_bottom) == word_bottom

\* group_rows lines 49-51.
MergedBottom(sentence_bottom, word_bottom) == Max({sentence_bottom, word_bottom})

\* The `for w in words` loop of group_rows from word k on.
RECURSIVE GroupLoop(_, _, _, _, _, _)
GroupLoop(words, k, curr_sentence, merged_words, y_tolerance, horizontal_lines) ==
  IF k > Len(words) THEN Append(merged_words, curr_sentence)
  ELSE LET w == words[k] IN
       IF curr_sentence = NoneItem
       THEN GroupLoop(words, k + 1, Sentence(w), merged_words, y_tolerance, horizontal_lines)
       ELSE LET y_bottom == curr_sentence.bottom
                close_vertically == \/ Abs(w.top - y_bottom) <= y_tolerance
                                    \/ Abs(w.bottom - y_bottom) <= y_tolerance
                no_horizontal == ~_crosses_horizontal(horizontal_lines, y_bottom, w.top)
            IN IF close_vertically /\ no_horizontal
               THEN GroupLoop(words, k + 1,
                              [curr_sentence EXCEPT
                                 !.bottom = MergedBottom(curr_sentence.bottom, w.bottom),
                                 !.members = @ \cup {w},
                                 !.joins = @ \cup {[prev |-> curr_sentence.last, next |-> w]},
                                 !.last = w],
                              merged_words, y_tolerance, horizontal_lines)
               ELSE GroupLoop(words, k + 1, Sentence(w),
                              Append(merged_words, curr_sentence),
                              y_tolerance, horizontal_lines)

\* group_rows for the words of one header.
group_rows(words, y_tolerance, horizontal_lines) ==
  GroupLoop(SortByTop(words), 1, NoneItem, <<>>, y_tolerance, horizontal_lines)

\* Mutant of row_intersection: the word is compared with the top of the row.
row_intersection_TopOnly(row_bounds, word, y_tolerance) ==
  ~(word.bottom < row_bounds.top - y_tolerance \/ word.top > row_bounds.top + y_tolerance)

\* is_intersection lines 74-83.
row_intersection(row_bounds, word, y_tolerance) ==
  ~(word.bottom < row_bounds.top - y_tolerance \/ word.top > row_bounds.bottom + y_tolerance)

\* create_rows_json step 3, from item k on: the item joins the first row it
\* intersects, or opens a new row.
RECURSIVE ClusterLoop(_, _, _, _)
ClusterLoop(all_items, k, rows, y_tolerance) ==
  IF k > Len(all_items) THEN rows
  ELSE LET item == all_items[k]
           hits == {i \in 1..Len(rows) : row_intersection(rows[i], item, y_tolerance)}
       IN IF hits # {}
          THEN ClusterLoop(all_items, k + 1,
                 [rows EXCEPT ![Min(hits)] =
                    [items |-> Append(@.items, item),
                     top |-> Min({@.top, item.top}),
                     bottom |-> Max({@.bottom, item.bottom})]],
                 y_tolerance)
          ELSE ClusterLoop(all_items, k + 1,
                 Append(rows, [items |-> <<item>>, top |-> item.top, bottom |-> item.bottom]),
                 y_tolerance)

\* create_rows_json steps 2-4 on the flattened items: sort, cluster, build.
RowsOfItems(flat, y_tolerance) ==
  LET all_items == SortByTop(SelectSeq(flat, LAMBDA item : item # NoneItem))
      rows == ClusterLoop(all_items, 1, <<>>, y_tolerance)
  IN [r \in 1..Len(rows) |->
        [y_top |-> Min({rows[r].items[i].top : i \in 1..Len(rows[r].items)}),
         y_bottom |-> Max({rows[r].items[i].bottom : i \in 1..Len(rows[r].items)}),
         items |-> rows[r].items]]

\* create_rows_json: step 1 flattens the columns in the order of the dict.
create_rows_json(header_groups, y_tolerance) ==
  RowsOfItems(header_groups[1] \o header_groups[2], y_tolerance)

\* __init__ line 9 sets self.horizontal_lines = [] and nothing assigns it
\* afterwards: run (200-223) reads page_number and header_groups only, so the
\* rule lines of the page (page_lines) never reach group_rows.
RowsInit ==
  /\ rws \in { [ pc |-> "group", column_data |-> <<particulars, balance>>,
                 y_tolerance |-> t, page_lines |-> l, horizontal_lines |-> {},
                 grouped_rows |-> <<>>, rows |-> <<>> ]
               : particulars \in ColumnLists(MaxColWords), balance \in ColumnLists(1),
                 t \in Tolerances, l \in LineSets }
  /\ join = Idle /\ rng = Idle /\ fmt = Idle
  /\ PlIdle /\ Units2Idle /\ Units3Idle

\* run line 216.
RowsGroup ==
  /\ Active(rws)
  /\ rws.pc = "group"
  /\ rws' = [rws EXCEPT
               !.grouped_rows =
                  [h \in 1..2 |-> group_rows(rws.column_data[h], rws.y_tolerance,
                                             rws.horizontal_lines)],
               !.pc = "create"]
  /\ UNCHANGED <<units3, units2, plVars, join, rng, fmt>>

\* run line 217.
RowsCreate ==
  /\ Active(rws)
  /\ rws.pc = "create"
  /\ rws' = [rws EXCEPT
               !.rows = create_rows_json(rws.grouped_rows, rws.y_tolerance),
               !.pc = "yield"]
  /\ UNCHANGED <<units3, units2, plVars, join, rng, fmt>>

\* run lines 219-223.
RowsYield ==
  /\ Active(rws)
  /\ rws.pc = "yield"
  /\ rws' = [rws EXCEPT !.pc = "done"]
  /\ UNCHANGED <<units3, units2, plVars, join, rng, fmt>>

RowsNext ==
  \/ RowsGroup
  \/ RowsCreate
  \/ RowsYield

SpecRows == RowsInit /\ [][RowsNext]_vars

-----------------------------------------------------------------------------
(* MergeRows: merge_rows_with_anchors (pass 1), merge_incomplete_rows      *)
(* (pass 2) and run, on the rows of one page.  Scores are kept as exact    *)
(* fractions [num, den] and compared by cross-multiplication.  The code    *)
(* adds them up in binary floating point, so two scores that are equal as  *)
(* fractions can compare either way: fp gives, for every pair of rows, the *)
(* sign of the rounding error of the pair's score, and decides such ties.  *)

MaxMergeRows == 3
MaxMergeY == 1

\* The texts a cell of the page can hold, and where the three columns lie.
DateText == "01/02/2024"
BalanceText == "100.00"
ParticularsText == "UPI"
ColumnX == [date |-> <<0, 1>>, particulars |-> <<2, 3>>, balance |-> <<4, 5>>]

MergeFields == {"date", "particulars", "balance"}

\* One row as BuildRows.create_rows_json builds it: the texts of the columns
\* that have an item on the row (particulars as the list of its joined
\* texts, <<>> when the key is missing) and the box around the items.
RowOf(cols, top, bottom) ==
  [ date        |-> IF "date" \in cols THEN DateText ELSE NoneValue,
    particulars |-> IF "particulars" \in cols THEN <<ParticularsText>> ELSE <<>>,
    balance     |-> IF "balance" \in cols THEN BalanceText ELSE NoneValue,
    y_top       |-> top,
    y_bottom    |-> bottom,
    x_left      |-> Min({ColumnX[c][1] : c \in cols}),
    x_right     |-> Max({ColumnX[c][2] : c \in cols}) ]

MergeInputRows ==
  { RowOf(cols, y[1], y[2]) :
      cols \in (SUBSET MergeFields) \ {{}},
      y \in {yy \in (0..MaxMergeY) \X (0..MaxMergeY) : yy[1] <= yy[2]} }

PageRows(n) == UNION { [1..k -> MergeInputRows] : k \in 0..n }

\* value and str(value).strip(): the key holds a text.
Has(row, f) == IF f = "particulars" THEN row[f] # <<>> ELSE row[f] # NoneValue

is_row_valid(row) == row.date # NoneValue /\ row.balance # NoneValue

_is_valid_amount(value) == value = BalanceText

_is_valid_date(date_str) == date_str = DateText

\* rows.sort(key=y_top): a stable insertion sort.
RECURSIVE InsertRow(_, _)
InsertRow(sorted, row) ==
  IF sorted = <<>> THEN <<row>>
  ELSE IF sorted[Len(sorted)].y_top <= row.y_top THEN Append(sorted, row)
  ELSE Append(InsertRow(SubSeq(sorted, 1, Len(sorted) - 1), row), sorted[Len(sorted)])

RECURSIVE SortRowsFrom(_, _, _)
SortRowsFrom(rows, k, acc) ==
  IF k > Len(rows) THEN acc ELSE SortRowsFrom(rows, k + 1, InsertRow(acc, rows[k]))

SortRows(rows) == SortRowsFrom(rows, 1, <<>>)

RECURSIVE SumSeq(_)
SumSeq(s) == IF s = <<>> THEN 0 ELSE s[1] + SumSeq(Tail(s))

DefaultRowHeight == 10

\* The average of the positive row heights as [sum, n]; 10.0 without any.
_calculate_avg_row_height(rows) ==
  LET heights == SelectSeq([i \in 1..Len(rows) |-> rows[i].y_bottom - rows[i].y_top],
                           LAMBDA h : h > 0)
  IN IF heights # <<>> THEN [sum |-> SumSeq(heights), n |-> Len(heights)]
     ELSE [sum |-> DefaultRowHeight, n |-> 1]

\* 3 * avg * max(0, 1 - (y_distance / avg) / 3) scaled by n: the numerator
\* of the proximity score over the denominator 3 * sum.
Proximity(row1, row2, rows) ==
  LET avg == _calculate_avg_row_height(rows)
      y_distance == Abs(row1.y_top - row2.y_top)
  IN Max({0, 3 * avg.sum - y_distance * avg.n})

\* f"{text1} {text2}" of two dates is the date text twice.
JoinedDates == "01/02/2024 01/02/2024"

_try_merge_text(text1, text2) ==
  IF text1 = NoneValue THEN text2
  ELSE IF text2 = NoneValue THEN text1
  ELSE JoinedDates

\* Both dates are the same text here, so the first substring test succeeds.
_try_merge_date(date1, date2) ==
  IF date1 = NoneValue THEN date2
  ELSE IF date2 = NoneValue THEN date1
  ELSE date2

\* The non-box keys of a row that hold a text.
TextKeys(row) == {f \in MergeFields : Has(row, f)}

\* _calculate_merge_confidence as the fraction num / den:
\*   0.4 * proximity + 0.3 * compatibility / field_count + tenths / 10.
_calculate_merge_confidence(anchor_row, incomplete_row, anchor_idx, incomplete_idx, rows) ==
  LET avg == _calculate_avg_row_height(rows)
      prox == Proximity(anchor_row, incomplete_row, rows)
      counted == TextKeys(incomplete_row)
      field_count == Cardinality(counted)
      \* compatibility in quarters
      gain(f) == IF f \notin counted THEN 0
                 ELSE IF ~Has(anchor_row, f) THEN 4
                 ELSE IF f = "particulars" THEN 2
                 ELSE 1
      clash == (IF _is_valid_date(incomplete_row.date) /\ _is_valid_date(anchor_row.date)
                  THEN 12 ELSE 0)
             + (IF _is_valid_amount(incomplete_row.balance) /\ _is_valid_amount(anchor_row.balance)
                  THEN 12 ELSE 0)
      compatibility == gain("date") + gain("particulars") + gain("balance") - clash
      position == IF incomplete_idx = anchor_idx + 1 THEN 2
                  ELSE IF incomplete_idx = anchor_idx - 1 THEN 1
                  ELSE 0
      only_particulars == IF counted = {"particulars"} THEN 1 ELSE 0
      merged_date == _try_merge_text(anchor_row.date, incomplete_row.date)
      date_bonus == IF merged_date # NoneValue /\ _is_valid_date(merged_date) THEN 1 ELSE 0
      tenths == position + only_particulars + date_bonus
      fc == IF field_count > 0 THEN field_count ELSE 1
  IN [ num |-> 16 * fc * prox
               + (IF field_count > 0 THEN 9 * compatibility * avg.sum ELSE 0)
               + 12 * tenths * avg.sum * fc,
       den |-> 120 * avg.sum * fc ]

\* The signs of the rounding errors of the scores of the pairs of n rows.
RowPairs(n) == {{i, j} : i \in 1..n, j \in 1..n} \ {{i} : i \in 1..n}

Roundings(n) == [RowPairs(n) -> {0 - 1, 0, 1}]

\* score > t / 10, for a score rounded in direction err
Above(score, t, err) ==
  \/ score.num * 10 > t * score.den
  \/ score.num * 10 = t * score.den /\ err > 0

\* score = t / 10 as fractions, so that rounding decides the comparison.
TiedAt(score, t) == score.num * 10 = t * score.den

AnchorThreshold == 3
IncompleteThreshold == 4

\* A merge that takes the source row's bounds where the source has them.
_smart_merge_row_Overwrite(target_row, source_row) ==
  [ y_top    |-> source_row.y_top,
    y_bottom |-> source_row.y_bottom,
    x_left   |-> source_row.x_left,
    x_right  |-> source_row.x_right,
    particulars |-> target_row.particulars \o source_row.particulars,
    date     |-> IF source_row.date # NoneValue THEN source_row.date ELSE target_row.date,
    balance  |-> IF source_row.balance # NoneValue THEN source_row.balance
                 ELSE target_row.balance ]

\* _smart_merge_row(target_row, source_row): the target row after the merge.
_smart_merge_row(target_row, source_row) ==
  [ y_top    |-> Min({target_row.y_top, source_row.y_top}),
    y_bottom |-> Max({target_row.y_bottom, source_row.y_bottom}),
    x_left   |-> Min({target_row.x_left, source_row.x_left}),
    x_right  |-> Max({target_row.x_right, source_row.x_right}),
    particulars |-> target_row.particulars \o source_row.particulars,
    date     |-> IF ~Has(source_row, "date") THEN target_row.date
                 ELSE IF Has(target_row, "date")
                   THEN _try_merge_date(target_row.date, source_row.date)
                 ELSE source_row.date,
    balance  |-> IF ~Has(source_row, "balance") THEN target_row.balance
                 ELSE IF Has(target_row, "balance")
                   THEN (IF ~_is_valid_amount(target_row.balance)
                           THEN source_row.balance ELSE target_row.balance)
                 ELSE source_row.balance ]

\* One merge as it is recorded for the properties below: the rows and their
\* positions in the sorted rows of the page.
MergeEvent(pass, into, from, result, into_idx, from_idx) ==
  [pass |-> pass, into |-> into, from |-> from, result |-> result,
   into_idx |-> into_idx, from_idx |-> from_idx]

\* The loop over segment_incomplete of one anchor.
RECURSIVE SegmentLoop(_, _, _, _, _, _)
SegmentLoop(st, segment, k, anchor_idx, rows, fp) ==
  IF k > Len(segment) THEN st
  ELSE LET incomplete_idx == segment[k]
           incomplete_row == rows[incomplete_idx]
           merge_score == _calculate_merge_confidence(
                            st.anchor_row, incomplete_row, anchor_idx, incomplete_idx, rows)
           merged == _smart_merge_row(st.anchor_row, incomplete_row)
       IN IF Above(merge_score, AnchorThreshold, fp[{anchor_idx, incomplete_idx}])
            THEN SegmentLoop(
                   [ anchor_row |-> merged,
                     processed  |-> st.processed \cup {incomplete_idx},
                     merges     |-> st.merges \cup
                                      {MergeEvent(1, st.anchor_row, incomplete_row, merged,
                                                  anchor_idx, incomplete_idx)},
                     tied       |-> st.tied \/ TiedAt(merge_score, AnchorThreshold) ],
                   segment, k + 1, anchor_idx, rows, fp)
            ELSE SegmentLoop([st EXCEPT !.tied = @ \/ TiedAt(merge_score, AnchorThreshold)],
                             segment, k + 1, anchor_idx, rows, fp)

\* The indices lo..hi, in order, that are unprocessed and not valid.
Incomplete(rows, processed, lo, hi) ==
  SelectSeq([i \in 1..(IF hi >= lo THEN hi - lo + 1 ELSE 0) |-> lo + i - 1],
            LAMBDA i : i \notin processed /\ ~is_row_valid(rows[i]))

\* The loop over anchor_indices.
RECURSIVE AnchorLoop(_, _, _, _, _)
AnchorLoop(st, a, anchor_indices, rows, fp) ==
  IF a > Len(anchor_indices) THEN st
  ELSE LET anchor_idx == anchor_indices[a]
           processed == st.processed \cup {anchor_idx}
           next_anchor_idx == IF a < Len(anchor_indices) THEN anchor_indices[a + 1]
                              ELSE Len(rows) + 1
           segment_incomplete ==
             Incomplete(rows, processed, anchor_idx + 1, next_anchor_idx - 1)
               \o (IF anchor_idx = anchor_indices[1]
                     THEN Incomplete(rows, processed, 1, anchor_idx - 1) ELSE <<>>)
           seg == SegmentLoop([anchor_row |-> rows[anchor_idx], processed |-> processed,
                               merges |-> st.merges, tied |-> st.tied],
                              segment_incomplete, 1, anchor_idx, rows, fp)
       IN AnchorLoop([ merged_rows |-> Append(st.merged_rows, seg.anchor_row),
                       processed   |-> seg.processed,
                       merges      |-> seg.merges,
                       tied        |-> seg.tied ],
                     a + 1, anchor_indices, rows, fp)

\* Mutant of Unprocessed: every row is handed on to the second pass.
Unprocessed_All(n, processed) == [i \in 1..n |-> i]

\* Lines 116-119: the indices, in order, that no anchor has taken.
Unprocessed(n, processed) ==
  SelectSeq([i \in 1..n |-> i], LAMBDA i : i \notin processed)

\* merge_rows_with_anchors(rows): (merged_rows, unprocessed_rows), the
\* merges made, and whether a comparison was between equal fractions.
merge_rows_with_anchors(page_rows, fp) ==
  LET rows == SortRows(page_rows)
      anchor_indices == SelectSeq([i \in 1..Len(rows) |-> i],
                                  LAMBDA i : is_row_valid(rows[i]))
      out == AnchorLoop([merged_rows |-> <<>>, processed |-> {}, merges |-> {},
                         tied |-> FALSE],
                        1, anchor_indices, rows, fp)
  IN IF anchor_indices = <<>>
       THEN [merged_rows |-> <<>>, unprocessed_rows |-> rows, merges |-> {},
             left |-> [i \in 1..Len(rows) |-> i],
             tied |-> FALSE]
       ELSE LET left == Unprocessed(Len(rows), out.processed) IN
            [ merged_rows |-> out.merged_rows,
              unprocessed_rows |-> [k \in 1..Len(left) |-> rows[left[k]]],
              merges |-> out.merges,
              left |-> left,
              tied |-> out.tied ]

\* _try_merge_incomplete_rows(row1, row2): the merged copy of row1.
_try_merge_incomplete_rows(row1, row2) ==
  [ y_top    |-> Min({row1.y_top, row2.y_top}),
    y_bottom |-> Max({row1.y_bottom, row2.y_bottom}),
    x_left   |-> Min({row1.x_left, row2.x_left}),
    x_right  |-> Max({row1.x_right, row2.x_right}),
    particulars |-> row1.particulars \o row2.particulars,
    date     |-> IF ~Has(row2, "date") THEN row1.date
                 ELSE IF Has(row1, "date") THEN _try_merge_date(row1.date, row2.date)
                 ELSE row2.date,
    balance  |-> IF ~Has(row2, "balance") THEN row1.balance
                 ELSE IF Has(row1, "balance")
                   THEN (IF ~_is_valid_amount(row1.balance) /\ _is_valid_amount(row2.balance)
                           THEN row2.balance ELSE row1.balance)
                 ELSE row2.balance ]

\* Equal texts are compatible dates; different ones are not substrings of
\* each other.
_can_merge_dates(date1, date2) == date1 = date2

\* _calculate_incomplete_merge_confidence as the fraction num / den:
\*   0.3 * complementarity + 0.3 (required fields) + 0.2 * proximity
\*   + position bonus - 0.5 per conflict, not below 0.
_calculate_incomplete_merge_confidence(row1, row2, idx1, idx2, all_rows) ==
  LET avg == _calculate_avg_row_height(all_rows)
      prox == Proximity(row1, row2, all_rows)
      row1_fields == TextKeys(row1)
      row2_fields == TextKeys(row2)
      overlap == Cardinality(row1_fields \cap row2_fields)
      union == Cardinality(row1_fields \cup row2_fields)
      u == IF union > 0 THEN union ELSE 1
      required == IF {"date", "balance"} \subseteq (row1_fields \cup row2_fields)
                    THEN 18 ELSE 0
      position == IF idx2 = idx1 + 1 THEN 9
                  ELSE IF idx2 = idx1 + 2 THEN 3
                  ELSE 0
      date_conflict == IF Has(row1, "date") /\ Has(row2, "date")
                          /\ ~_can_merge_dates(row1.date, row2.date) THEN 30 ELSE 0
      amount_conflict == IF _is_valid_amount(row1.balance) /\ _is_valid_amount(row2.balance)
                            /\ row1.balance # row2.balance THEN 30 ELSE 0
      raw == (IF union > 0 THEN 18 * (union - overlap) * avg.sum ELSE 0)
             + required * u * avg.sum
             + 4 * u * prox
             + position * u * avg.sum
             - (date_conflict + amount_conflict) * u * avg.sum
  IN [num |-> Max({0, raw}), den |-> 60 * u * avg.sum]

\* The two fractions are equal, so that rounding decides the comparison.
Tied(a, b) == a.num * b.den = b.num * a.den

\* a > b, for scores rounded in directions ea and eb
Greater(a, ea, b, eb) ==
  \/ a.num * b.den > b.num * a.den
  \/ a.num * b.den = b.num * a.den /\ ea > eb

\* The scan for the best complementary row after row i.
RECURSIVE BestMatch(_, _, _, _, _, _)
BestMatch(best, i, j, processed, rows, fp) ==
  IF j > Len(rows) THEN best
  ELSE IF j <= i \/ j \in processed \/ is_row_valid(rows[j])
    THEN BestMatch(best, i, j + 1, processed, rows, fp)
  ELSE LET potential_merged == _try_merge_incomplete_rows(rows[i], rows[j])
           merge_score == _calculate_incomplete_merge_confidence(rows[i], rows[j], i, j, rows)
           tied == best.tied \/ Tied(merge_score, best.score)
       IN IF ~is_row_valid(potential_merged)
            THEN BestMatch(best, i, j + 1, processed, rows, fp)
          ELSE IF Greater(merge_score, fp[{i, j}], best.score, best.err)
            THEN BestMatch([idx |-> j, score |-> merge_score, err |-> fp[{i, j}],
                            tied |-> tied],
                           i, j + 1, processed, rows, fp)
          ELSE BestMatch([best EXCEPT !.tied = tied], i, j + 1, processed, rows, fp)

NoMatch == [idx |-> 0, score |-> [num |-> 0, den |-> 1], err |-> 0, tied |-> FALSE]

RECURSIVE IncompleteLoop(_, _, _, _)
IncompleteLoop(st, i, rows, fp) ==
  IF i > Len(rows) THEN st
  ELSE IF i \in st.processed THEN IncompleteLoop(st, i + 1, rows, fp)
  ELSE IF is_row_valid(rows[i])
    THEN IncompleteLoop([st EXCEPT !.merged_rows = Append(@, rows[i]),
                                   !.processed = @ \cup {i}], i + 1, rows, fp)
  ELSE LET best == BestMatch(NoMatch, i, 1, st.processed, rows, fp)
           merged_row == _try_merge_incomplete_rows(rows[i], rows[best.idx])
           tied == st.tied \/ best.tied
                     \/ (best.idx # 0 /\ TiedAt(best.score, IncompleteThreshold))
       IN IF best.idx # 0 /\ Above(best.score, IncompleteThreshold, best.err)
            THEN IncompleteLoop(
                   [ merged_rows |-> Append(st.merged_rows, merged_row),
                     processed   |-> st.processed \cup {i, best.idx},
                     merges      |-> st.merges \cup
                                       {MergeEvent(2, rows[i], rows[best.idx], merged_row,
                                                   i, best.idx)},
                     tied        |-> tied ],
                   i + 1, rows, fp)
            ELSE IncompleteLoop([st EXCEPT !.merged_rows = Append(@, rows[i]),
                                           !.processed = @ \cup {i},
                                           !.tied = tied], i + 1, rows, fp)

\* merge_incomplete_rows(rows): the merged rows and the merges made.
merge_incomplete_rows(unprocessed_rows, fp) ==
  IncompleteLoop([merged_rows |-> <<>>, processed |-> {}, merges |-> {}, tied |-> FALSE],
                 1, SortRows(unprocessed_rows), fp)

\* No rounding error on any score.
Unrounded(n) == [p \in RowPairs(n) |-> 0]

\* The roundings that can change what a pass does with its rows: all of
\* them when the pass, run on the exact fractions, compares two equal ones,
\* and else none, since the pass then takes the same branches under all.
RoundingsOf(tied, n) == IF tied THEN Roundings(n) ELSE {Unrounded(n)}

MergeInit ==
  /\ mrg \in { [ pc |-> "anchors", page_rows |-> p, merged_with_anchors |-> <<>>,
                 unprocessed_rows |-> <<>>, all_merged |-> <<>>, merges |-> {},
                 left |-> <<>> ]
               : p \in PageRows(MaxMergeRows) }
  /\ cln = Idle /\ scr = Idle /\ hdr = Idle /\ lim = Idle /\ Units3Idle
  /\ join = Idle /\ rng = Idle /\ fmt = Idle /\ rws = Idle /\ PlIdle

\* Step 1 of run: merged_with_anchors, unprocessed_rows = merge_rows_with_anchors(page_rows)
MergeAnchors ==
  /\ Active(mrg)
  /\ mrg.pc = "anchors"
  /\ \E fp \in RoundingsOf(
               merge_rows_with_anchors(mrg.page_rows, Unrounded(Len(mrg.page_rows))).tied,
               Len(mrg.page_rows)) :
       LET out == merge_rows_with_anchors(mrg.page_rows, fp)
       IN mrg' = [mrg EXCEPT !.pc = IF out.unprocessed_rows # <<>> THEN "incomplete" ELSE "yield",
                           !.merged_with_anchors = out.merged_rows,
                           !.unprocessed_rows = out.unprocessed_rows,
                           !.all_merged = out.merged_rows,
                           !.merges = out.merges,
                           !.left = out.left]
  /\ UNCHANGED <<units3, plVars, units, hdr, lim, cln, scr>>

\* Step 2 of run: all_merged = merged_with_anchors + merge_incomplete_rows(unprocessed_rows)
MergeIncomplete ==
  /\ Active(mrg)
  /\ mrg.pc = "incomplete"
  /\ \E fp \in RoundingsOf(
               merge_incomplete_rows(mrg.unprocessed_rows,
                                     Unrounded(Len(mrg.unprocessed_rows))).tied,
               Len(mrg.unprocessed_rows)) :
       LET out == merge_incomplete_rows(mrg.unprocessed_rows, fp)
       IN mrg' = [mrg EXCEPT !.pc = "yield",
                           !.all_merged = mrg.merged_with_anchors \o out.merged_rows,
                           !.merges = @ \cup
                              {[e EXCEPT !.into_idx = mrg.left[@], !.from_idx = mrg.left[@]]
                                 : e \in out.merges}]
  /\ UNCHANGED <<units3, plVars, units, hdr, lim, cln, scr>>

\* all_merged.sort(key=y_top); yield {"rows": all_merged, ...}
MergeYield ==
  /\ Active(mrg)
  /\ mrg.pc = "yield"
  /\ mrg' = [mrg EXCEPT !.pc = "done", !.all_merged = SortRows(@)]
  /\ UNCHANGED <<units3, plVars, units, hdr, lim, cln, scr>>

MergeNext ==
  \/ MergeAnchors
  \/ MergeIncomplete
  \/ MergeYield

SpecMerge == MergeInit /\ [][MergeNext]_vars

-----------------------------------------------------------------------------
(* CleanData.clean_dot_padded_words on the words of one page (a page other *)
(* than the one the headers were found on).  A text is the sequence of its *)
(* characters.                                                             *)

MaxCleanWords == 2
MaxTextLen == 4
CharWidth == 2

Chars == {".", "-", "i", "7"}

Texts == UNION { [1..n -> Chars] : n \in 1..MaxTextLen }

\* The k-th word of the page: one word per text line, as wide as its text.
WordAt(k, text) ==
  [text |-> text, x0 |-> 0, x1 |-> CharWidth * Len(text), top |-> k, bottom |-> k + 1]

AllOf(text, cs) == text # <<>> /\ \A i \in 1..Len(text) : text[i] \in cs

\* re.fullmatch(r"i{1,}", text, IGNORECASE)
is_fake_i_filler(text) == AllOf(text, {"i", "I"})

\* re.fullmatch(r"-+\s*", text.strip())
is_fake_hyphen_filler(text) == AllOf(text, {"-"})

\* The length of the run of dots that starts at position i.
RECURSIVE DotRun(_, _)
DotRun(text, i) ==
  IF i > Len(text) \/ text[i] # "." THEN 0 ELSE 1 + DotRun(text, i + 1)

\* re.search(r"\.{3,}", text)
HasDotRun(text) == \E i \in 1..Len(text) : DotRun(text, i) >= 3

\* re.split(r'(\.{3,})', text) without the blank parts.
RECURSIVE SplitFrom(_, _, _, _)
SplitFrom(text, i, cur, acc) ==
  LET done == IF cur = <<>> THEN acc ELSE Append(acc, cur)
      n == DotRun(text, i)
  IN IF i > Len(text) THEN done
     ELSE IF n >= 3 THEN SplitFrom(text, i + n, <<>>, Append(done, SubSeq(text, i, i + n - 1)))
     ELSE SplitFrom(text, i + 1, Append(cur, text[i]), acc)

smart_split_with_dots(text) == SplitFrom(text, 1, <<>>, <<>>)

\* estimate_bounding_boxes(original_box, parts): the box is divided by
\* character count (its width is a multiple of the count here).
RECURSIVE BoxesFrom(_, _, _, _, _)
BoxesFrom(original_box, parts, k, current_x, char_width) ==
  IF k > Len(parts) THEN <<>>
  ELSE LET part_width == Len(parts[k]) * char_width
       IN << [ text |-> parts[k], x0 |-> current_x, x1 |-> current_x + part_width,
               top |-> original_box.top, bottom |-> original_box.bottom ] >>
          \o BoxesFrom(original_box, parts, k + 1, current_x + part_width, char_width)

estimate_bounding_boxes(original_box, parts) ==
  LET total_chars == SumSeq([k \in 1..Len(parts) |-> Len(parts[k])])
  IN IF total_chars = 0 THEN <<>>
     ELSE BoxesFrom(original_box, parts, 1, original_box.x0,
                    (original_box.x1 - original_box.x0) \div total_chars)

\* What one iteration of the loop adds to cleaned_words, dropping every
\* word that has no dot run.
CleanedOf_DropPlain(word) ==
  IF HasDotRun(word.text) /\ ~AllOf(word.text, {"."})
    THEN estimate_bounding_boxes(word, smart_split_with_dots(word.text))
  ELSE <<>>

\* What one iteration of the loop of clean_dot_padded_words adds to
\* cleaned_words.
CleanedOf(word) ==
  IF is_fake_hyphen_filler(word.text) THEN <<>>
  ELSE IF HasDotRun(word.text) \/ is_fake_i_filler(word.text)
    THEN LET parts == smart_split_with_dots(word.text)
         IN IF AllOf(word.text, {"."}) \/ is_fake_i_filler(word.text) THEN <<>>
            ELSE IF Len(parts) > 1 THEN estimate_bounding_boxes(word, parts)
            ELSE <<word>>
  ELSE <<word>>

RECURSIVE clean_dot_padded_words(_)
clean_dot_padded_words(words) ==
  IF words = <<>> THEN <<>>
  ELSE CleanedOf(Head(words)) \o clean_dot_padded_words(Tail(words))

CleanInit ==
  /\ \E m \in 0..MaxCleanWords : \E t \in [1..m -> Texts] :
       cln = [ pc |-> "clean", words |-> [k \in 1..m |-> WordAt(k, t[k])],
               cleaned_words |-> <<>> ]
  /\ mrg = Idle /\ scr = Idle /\ hdr = Idle /\ lim = Idle /\ Units3Idle
  /\ join = Idle /\ rng = Idle /\ fmt = Idle /\ rws = Idle /\ PlIdle

\* words = self.clean_dot_padded_words(words)
CleanWords ==
  /\ Active(cln)
  /\ cln.pc = "clean"
  /\ cln' = [cln EXCEPT !.pc = "yield", !.cleaned_words = clean_dot_padded_words(cln.words)]
  /\ UNCHANGED <<units3, plVars, units, hdr, lim, mrg, scr>>

\* yield {"page_number": i, "words": words, ...}
CleanYield ==
  /\ Active(cln)
  /\ cln.pc = "yield"
  /\ cln' = [cln EXCEPT !.pc = "done"]
  /\ UNCHANGED <<units3, plVars, units, hdr, lim, mrg, scr>>

CleanNext ==
  \/ CleanWords
  \/ CleanYield

SpecClean == CleanInit /\ [][CleanNext]_vars

-----------------------------------------------------------------------------
(* utils/result_scorer.score_parsed_result on the rows of a result file.   *)
(* Amounts are integers in units of 0.005, an optional value is <<>> or    *)
(* <<v>>, a date is its day number.  The code computes expected - actual   *)
(* in binary floating point: where the exact difference is 0.01 the test   *)
(* `< 0.01` can go either way, separately for the post and the pre check.  *)

MaxScoreRows == 3
MaxDay == 2

\* 0.01 in units of 0.005
Cent == 2

None == <<>>
Some(v) == <<v>>

BalanceValues == {None, Some(0), Some(1), Some(3)}

\* The credit and debit cells of a row: neither, a credit or a debit.
Movements == {[credit |-> None, debit |-> None], [credit |-> Some(1), debit |-> None],
              [credit |-> None, debit |-> Some(1)]}

ScoreRows ==
  { [date |-> d, balance |-> b, credit |-> mv.credit, debit |-> mv.debit] :
      d \in {None} \cup {Some(n) : n \in 1..MaxDay}, b \in BalanceValues, mv \in Movements }

OrZero(v) == IF v = None THEN 0 ELSE v[1]

\* extract_fields(row): (credit, debit), 0.0 for a missing one
extract_fields(row) == [cr |-> OrZero(row.credit), dr |-> OrZero(row.debit)]

IsSorted(s, LessEq(_, _)) == \A i \in 1..(Len(s) - 1) : LessEq(s[i], s[i + 1])

\* sorted(indexed_rows, key=(parsed date or datetime.min, index)): the
\* indices of rows in that order.
RECURSIVE ByDateFrom(_, _)
ByDateFrom(rows, left) ==
  IF left = {} THEN <<>>
  ELSE LET first == CHOOSE i \in left : \A j \in left :
                      \/ OrZero(rows[i].date) < OrZero(rows[j].date)
                      \/ OrZero(rows[i].date) = OrZero(rows[j].date) /\ i <= j
       IN <<first>> \o ByDateFrom(rows, left \ {first})

\* Lines 71-85: rows in ascending date order.
sorted_rows(rows) ==
  LET valid_dates == SelectSeq([i \in 1..Len(rows) |-> rows[i].date], LAMBDA d : d # None)
      order == ByDateFrom(rows, 1..Len(rows))
  IN IF Len(valid_dates) >= 2
       THEN IF IsSorted(valid_dates, LAMBDA a, b : a[1] <= b[1]) THEN rows
            ELSE IF IsSorted(valid_dates, LAMBDA a, b : a[1] >= b[1])
              THEN [i \in 1..Len(rows) |-> rows[Len(rows) + 1 - i]]
            ELSE [i \in 1..Len(rows) |-> rows[order[i]]]
     ELSE rows

\* The indices check_mode counts: both balances are present.
Checks(rows) == {i \in 2..Len(rows) : rows[i - 1].balance # None /\ rows[i].balance # None}

\* Mutant of Gap: the pre-mode difference applies the movement with the
\* sign of the post mode.
Gap_PreSameSign(rows, i, post) ==
  LET f == extract_fields(rows[i])
  IN IF post THEN rows[i - 1].balance[1] + f.cr - f.dr - rows[i].balance[1]
     ELSE rows[i].balance[1] + f.cr - f.dr - rows[i - 1].balance[1]

\* expected - actual of check_mode at index i (post: positive sense)
Gap(rows, i, post) ==
  LET f == extract_fields(rows[i])
      d == rows[i - 1].balance[1] + f.cr - f.dr - rows[i].balance[1]
  IN IF post THEN d ELSE 0 - d

\* The indices whose exact difference is below 0.01, and those at 0.01.
Within(rows, post) == {i \in Checks(rows) : Abs(Gap(rows, i, post)) < Cent}

Borderline(rows, post) == {i \in Checks(rows) : Abs(Gap(rows, i, post)) = Cent}

\* q / d rounded to the nearest integer, halves to even
RoundHalfEven(q, d) ==
  LET lo == q \div d
      r == q % d
  IN IF 2 * r < d THEN lo
     ELSE IF 2 * r > d THEN lo + 1
     ELSE IF lo % 2 = 0 THEN lo ELSE lo + 1

\* Mutant of ModeOf: a tie of the two scores is reported as "pre".
ModeOf_Strict(post_matches, pre_matches) ==
  IF post_matches > pre_matches THEN "post" ELSE "pre"

\* Line 113: mode = "post" if post_score >= pre_score else "pre" (both
\* scores are matches over the same count of checks).
ModeOf(post_matches, pre_matches) ==
  IF post_matches >= pre_matches THEN "post" ELSE "pre"

\* A score that adds the two check results up.
ScoreResult_Sum(post_matches, pre_matches, checks) ==
  [ score |-> IF checks = 0 THEN 0
              ELSE RoundHalfEven(1000 * (post_matches + pre_matches), checks),
    mode  |-> ModeOf(post_matches, pre_matches) ]

\* round(10 * max(post_score, pre_score), 2) in hundredths, and the mode,
\* from the matches of the two checks over the same count of checks.
ScoreResult(post_matches, pre_matches, checks) ==
  [ score |-> IF checks = 0 THEN 0
              ELSE RoundHalfEven(1000 * Max({post_matches, pre_matches}), checks),
    mode  |-> ModeOf(post_matches, pre_matches) ]

ScorerInit ==
  /\ \E n \in 0..MaxScoreRows : \E rows \in [1..n -> ScoreRows] :
       scr = [pc |-> "sort", rows |-> rows, sorted_rows |-> <<>>,
              post_matches |-> 0, pre_matches |-> 0,
              result |-> [score |-> 0, mode |-> "unset"]]
  /\ mrg = Idle /\ cln = Idle /\ hdr = Idle /\ lim = Idle /\ Units3Idle
  /\ join = Idle /\ rng = Idle /\ fmt = Idle /\ rws = Idle /\ PlIdle

\* if not rows: return {"score": 0.0, "mode": None}
ScorerEmpty ==
  /\ Active(scr)
  /\ scr.pc = "sort"
  /\ scr.rows = <<>>
  /\ scr' = [scr EXCEPT !.pc = "done", !.result = [score |-> 0, mode |-> "None"]]
  /\ UNCHANGED <<units3, plVars, units, hdr, lim, mrg, cln>>

\* Lines 71-92
ScorerSort ==
  /\ Active(scr)
  /\ scr.pc = "sort"
  /\ scr.rows # <<>>
  /\ scr' = [scr EXCEPT !.pc = "check", !.sorted_rows = sorted_rows(scr.rows)]
  /\ UNCHANGED <<units3, plVars, units, hdr, lim, mrg, cln>>

\* post_score = check_mode(True); pre_score = check_mode(False)
ScorerCheck ==
  /\ Active(scr)
  /\ scr.pc = "check"
  /\ \E up \in SUBSET Borderline(scr.sorted_rows, TRUE),
        uq \in SUBSET Borderline(scr.sorted_rows, FALSE) :
       scr' = [scr EXCEPT
                 !.pc = "return",
                 !.post_matches = Cardinality(Within(scr.sorted_rows, TRUE) \cup up),
                 !.pre_matches = Cardinality(Within(scr.sorted_rows, FALSE) \cup uq)]
  /\ UNCHANGED <<units3, plVars, units, hdr, lim, mrg, cln>>

\* Lines 113-115
ScorerReturn ==
  /\ Active(scr)
  /\ scr.pc = "return"
  /\ scr' = [scr EXCEPT
               !.pc = "done",
               !.result = ScoreResult(scr.post_matches, scr.pre_matches,
                                      Cardinality(Checks(scr.sorted_rows)))]
  /\ UNCHANGED <<units3, plVars, units, hdr, lim, mrg, cln>>

ScorerNext ==
  \/ ScorerEmpty
  \/ ScorerSort
  \/ ScorerCheck
  \/ ScorerReturn

SpecScorer == ScorerInit /\ [][ScorerNext]_vars

-----------------------------------------------------------------------------
(* HeaderRecognition.run: the header list of the record read from the       *)
(* headers stream, each header reduced to its text.  The similarity of a    *)
(* header text to the variants of a canonical key (process.extractOne with  *)
(* fuzz.token_sort_ratio) is an input: a table from text and key to score.  *)

MaxHeaderTexts == 3

\* The keys of HEADERS_MAP the table covers, in the order of the dict.
CanonicalKeys == <<"date", "amount">>
Canonicals == {CanonicalKeys[k] : k \in 1..Len(CanonicalKeys)}

HeaderTexts == {"Txn Dt", "Amt", "date"}
FuzzScores == {40, 60, 70, 100}
MappingThreshold == 50
AssignThreshold == 70
CachedScore == 100

\* The score tables: a text that is a variant of a key scores 100 on it.
FuzzTables ==
  { f \in [HeaderTexts \X Canonicals -> FuzzScores] :
      f[<<"date", "date">>] = 100 /\ f[<<"date", "amount">>] = 40 }

\* _map_headers lines 42-52: the keys in dict order, a later key replacing
\* the best one only with a strictly higher score.
RECURSIVE BestKeyFrom(_, _, _, _)
BestKeyFrom(k, best, header, fuzz) ==
  IF k > Len(CanonicalKeys) THEN best
  ELSE LET score == fuzz[<<header, CanonicalKeys[k]>>] IN
       BestKeyFrom(k + 1,
                   IF score > best[2] THEN <<CanonicalKeys[k], score>> ELSE best,
                   header, fuzz)

\* _map_headers: <<canonical key, score>>, or <<header, -1>> below 50.
_map_headers(header, fuzz) ==
  LET best == BestKeyFrom(1, <<header, 0>>, header, fuzz) IN
  IF best[2] >= MappingThreshold THEN best ELSE <<header, 0 - 1>>

HeaderInit ==
  /\ \E n \in 1..MaxHeaderTexts : \E h \in [1..n -> HeaderTexts] : \E f \in FuzzTables :
       hdr = [ pc |-> "first", headers |-> h, fuzz |-> f, i |-> 1,
               mapping |-> <<>>, header_to_canonical |-> <<>>,
               canonical_to_best |-> <<>>, recognized_headers |-> <<>> ]
  /\ mrg = Idle /\ cln = Idle /\ scr = Idle /\ lim = Idle /\ Units3Idle
  /\ join = Idle /\ rng = Idle /\ fmt = Idle /\ rws = Idle /\ PlIdle

\* run line 94: a claimant replaces the best one of its canonical.
IsBetter(score, best_score) == score > best_score

\* run lines 84-95, one header of the first pass.
HeaderFirstPass ==
  /\ Active(hdr)
  /\ hdr.pc = "first"
  /\ hdr.i <= Len(hdr.headers)
  /\ LET header_text == hdr.headers[hdr.i]
         cached == header_text \in DOMAIN hdr.mapping
         mapped == IF cached THEN <<hdr.mapping[header_text], CachedScore>>
                   ELSE _map_headers(header_text, hdr.fuzz)
         mapped_text == mapped[1]
         score == mapped[2]
     IN hdr' = [hdr EXCEPT
                  !.mapping = IF cached THEN @ ELSE (header_text :> mapped_text) @@ @,
                  !.header_to_canonical = (header_text :> mapped) @@ @,
                  !.canonical_to_best =
                     IF mapped_text \notin DOMAIN @ \/ IsBetter(score, @[mapped_text][2])
                     THEN (mapped_text :> <<header_text, score>>) @@ @
                     ELSE @,
                  !.i = @ + 1]
  /\ UNCHANGED <<units3, plVars, units, mrg, cln, scr, lim>>

\* The first pass is over; the second one starts at the first header.
HeaderSecondStart ==
  /\ Active(hdr)
  /\ hdr.pc = "first"
  /\ hdr.i > Len(hdr.headers)
  /\ hdr' = [hdr EXCEPT !.pc = "second", !.i = 1]
  /\ UNCHANGED <<units3, plVars, units, mrg, cln, scr, lim>>

\* run lines 99-117, one header of the second pass.
HeaderSecondPass ==
  /\ Active(hdr)
  /\ hdr.pc = "second"
  /\ hdr.i <= Len(hdr.headers)
  /\ LET header_text == hdr.headers[hdr.i]
         mapped_text == hdr.header_to_canonical[header_text][1]
         score == hdr.header_to_canonical[header_text][2]
         assigned == /\ mapped_text \in DOMAIN hdr.canonical_to_best
                     /\ hdr.canonical_to_best[mapped_text][1] = header_text
                     /\ score >= AssignThreshold
     IN hdr' = [hdr EXCEPT
                  !.recognized_headers =
                     Append(@, [text |-> IF assigned THEN mapped_text ELSE header_text,
                                original_text |-> header_text]),
                  !.i = @ + 1]
  /\ UNCHANGED <<units3, plVars, units, mrg, cln, scr, lim>>

\* run lines 120-129: the record with the recognized headers is yielded.
HeaderYield ==
  /\ Active(hdr)
  /\ hdr.pc = "second"
  /\ hdr.i > Len(hdr.headers)
  /\ hdr' = [hdr EXCEPT !.pc = "done"]
  /\ UNCHANGED <<units3, plVars, units, mrg, cln, scr, lim>>

HeaderNext ==
  \/ HeaderFirstPass
  \/ HeaderSecondStart
  \/ HeaderSecondPass
  \/ HeaderYield

SpecHeader == HeaderInit /\ [][HeaderNext]_vars

-----------------------------------------------------------------------------
(* The page limit: handler.main reads `pages` from the message and passes   *)
(* it to BankStatementParser, whose run() wraps the PDF in LimitedPDF; the  *)
(* stages enumerate the pages of the wrapper.  A page is its index.         *)

MaxPdfPages == 12

\* pages: Optional[int] = 10 in BankStatementParser.__init__
DefaultPages == 10

\* The message: whether it has the key `pages`, and the value under it
\* (None for JSON null, Some(n) for a count).
Messages ==
  {[has_pages |-> FALSE, pages |-> None]}
    \cup {[has_pages |-> TRUE, pages |-> v] : v \in {None} \cup {Some(n) : n \in 0..MaxPdfPages}}

\* message.get("pages"): None for a missing key.
message_get_pages(message) == IF message.has_pages THEN message.pages ELSE None

\* main lines 64-71: the call always carries the keyword pages=pages.
PagesPassed == TRUE

\* BankStatementParser.__init__: the default applies to a call that leaves
\* the argument out.
InitPages(passed, argument) == IF passed THEN argument ELSE Some(DefaultPages)

\* pdf_doc.pages[:max_pages] for a list of n pages: the number of pages kept.
SliceLen(n, max_pages) ==
  IF max_pages = None THEN n
  ELSE IF max_pages[1] < n THEN max_pages[1] ELSE n

LimitInit ==
  /\ \E message \in Messages, n \in 0..MaxPdfPages :
       lim = [ pc |-> "message", message |-> message, pdf_pages |-> n,
               pages |-> None, self_pages |-> None, limited |-> 0, seen |-> {} ]
  /\ mrg = Idle /\ cln = Idle /\ scr = Idle /\ hdr = Idle /\ Units3Idle
  /\ join = Idle /\ rng = Idle /\ fmt = Idle /\ rws = Idle /\ PlIdle

\* main line 24: pages = message.get("pages")
LimitParse ==
  /\ Active(lim)
  /\ lim.pc = "message"
  /\ lim' = [lim EXCEPT !.pages = message_get_pages(lim.message), !.pc = "construct"]
  /\ UNCHANGED <<units3, plVars, units, mrg, cln, scr, hdr>>

\* main lines 64-71 and __init__ line 36: self.pages = pages
LimitConstruct ==
  /\ Active(lim)
  /\ lim.pc = "construct"
  /\ lim' = [lim EXCEPT !.self_pages = InitPages(PagesPassed, lim.pages), !.pc = "run"]
  /\ UNCHANGED <<units3, plVars, units, mrg, cln, scr, hdr>>

\* run lines 163-173: limited_pdf = LimitedPDF(pdf_doc, max_pages=self.pages)
LimitSlice ==
  /\ Active(lim)
  /\ lim.pc = "run"
  /\ lim' = [lim EXCEPT !.limited = SliceLen(lim.pdf_pages, lim.self_pages), !.pc = "stages"]
  /\ UNCHANGED <<units3, plVars, units, mrg, cln, scr, hdr>>

\* CleanData.run line 130: for i, page in enumerate(pdf_doc.pages), one page.
LimitStagePage ==
  /\ Active(lim)
  /\ lim.pc = "stages"
  /\ Cardinality(lim.seen) < lim.limited
  /\ lim' = [lim EXCEPT !.seen = @ \cup {Cardinality(@)}]
  /\ UNCHANGED <<units3, plVars, units, mrg, cln, scr, hdr>>

\* The stage has enumerated every page of the wrapper.
LimitStageEnd ==
  /\ Active(lim)
  /\ lim.pc = "stages"
  /\ Cardinality(lim.seen) = lim.limited
  /\ lim' = [lim EXCEPT !.pc = "done"]
  /\ UNCHANGED <<units3, plVars, units, mrg, cln, scr, hdr>>

LimitNext ==
  \/ LimitParse
  \/ LimitConstruct
  \/ LimitSlice
  \/ LimitStagePage
  \/ LimitStageEnd

SpecLimit == LimitInit /\ [][LimitNext]_vars

-----------------------------------------------------------------------------
(* ExtractColumnRange.get_column_range word by word: the words of a page    *)
(* arrive one at a time, each on the text line of the word before or on the *)
(* next one, so that more than line_threshold lines can be traversed.       *)

MaxVoteLines == 12
MaxVoteHeaders == 2

VoteHeaderLists == {h \in HeaderLists : Len(h) <= MaxVoteHeaders}

\* TRUE when the `for header in headers` loop, from header i on, leaves
\* through the break of line 174-176 (same traversal as HeaderLoop).
RECURSIVE LoopBreaks(_, _, _, _, _)
LoopBreaks(word, headers, i, header_range, num_of_lines_iterated) ==
  IF i > Len(headers) THEN FALSE
  ELSE IF is_intersection(word, headers[i])
  THEN LET x == IF i \in DOMAIN header_range THEN header_range[i] ELSE UnsetRange
           x0_r == Min({word.x0, headers[i].x0, x[1]})
           x1_r == Max({word.x1, headers[i].x1, x[2]})
       IN IF ~check_range_validity(header_range, i, [x0 |-> x0_r, x1 |-> x1_r])
             /\ num_of_lines_iterated > LineThreshold
          THEN TRUE
          ELSE LoopBreaks(word, headers, i + 1, (i :> <<x0_r, x1_r>>) @@ header_range,
                          num_of_lines_iterated)
  ELSE LoopBreaks(word, headers, i + 1, header_range, num_of_lines_iterated)

\* Lines 159-161.  stopped and at_stop record the first break and the ranges
\* as the word that caused it left them.
VoteInit ==
  /\ vot \in [ pc : {"loop"}, headers : VoteHeaderLists, header_range : {<<>>},
               curr_y_bottom : {0}, num_of_lines_iterated : {0},
               stopped : {FALSE}, at_stop : {<<>>} ]
  /\ grp = Idle
  /\ UnitsOff
  /\ PlIdle

\* One pass of the `for word in words` loop, lines 162-177.
VoteWord ==
  /\ Active(vot)
  /\ vot.pc = "loop"
  /\ \E box \in WordBoxes, bottom \in {vot.curr_y_bottom, vot.curr_y_bottom + 1} :
       LET word == [box EXCEPT !.bottom = bottom]
           y_bottom == Max({word.bottom, vot.curr_y_bottom})
           n == IF y_bottom > vot.curr_y_bottom THEN vot.num_of_lines_iterated + 1
                ELSE vot.num_of_lines_iterated
           breaks == word.valid /\ LoopBreaks(word, vot.headers, 1, vot.header_range, n)
       IN /\ n <= MaxVoteLines
          /\ vot' = [vot EXCEPT
                       !.header_range =
                          IF word.valid
                          THEN HeaderLoop(word, vot.headers, 1, vot.header_range, n)
                          ELSE @,
                       !.curr_y_bottom = y_bottom,
                       !.num_of_lines_iterated = n,
                       !.stopped = @ \/ breaks,
                       !.at_stop =
                          IF ~vot.stopped /\ breaks
                          THEN HeaderLoop(word, vot.headers, 1, vot.header_range, n)
                          ELSE @]
  /\ UNCHANGED <<plVars, units, units2, grp>>

\* Line 178: the words are exhausted.
VoteReturn ==
  /\ Active(vot)
  /\ vot.pc = "loop"
  /\ vot' = [vot EXCEPT !.pc = "done"]
  /\ UNCHANGED <<plVars, units, units2, grp>>

VoteNext ==
  \/ VoteWord
  \/ VoteReturn

SpecVote == VoteInit /\ [][VoteNext]_vars

-----------------------------------------------------------------------------
(* HeaderExtraction._group_words_into_rows: a word is its top; a row is the *)
(* key of the dict entry (the top of the word that opened it) and the       *)
(* positions, in sorted_words, of the words appended to it.                 *)

MaxTop == 10
MaxGroupWords == 3
GroupTolerance == 5

GroupWords == [top : 0..MaxTop]

\* The first key, in insertion order, within the tolerance of the word's top
\* (0 when there is none): the `for existing_top` loop, lines 449-453.
FirstRowWithin(rows, word, tolerance) ==
  LET hits == {r \in 1..Len(rows) : Abs(word.top - rows[r].top) <= tolerance}
  IN IF hits = {} THEN 0 ELSE Min(hits)

\* Line 392: find_table_headers calls with tolerance 5.0.
GroupInit ==
  /\ \E n \in 0..MaxGroupWords :
       grp \in [ pc : {"sort"}, words : [1..n -> GroupWords], sorted_words : {<<>>},
                 k : {1}, rows : {<<>>} ]
  /\ vot = Idle
  /\ UnitsOff
  /\ PlIdle

\* Lines 441-445.
GroupSort ==
  /\ Active(grp)
  /\ grp.pc = "sort"
  /\ grp' = [grp EXCEPT !.sorted_words = SortByTop(grp.words),
                        !.pc = IF grp.words = <<>> THEN "done" ELSE "loop"]
  /\ UNCHANGED <<plVars, units, units2, vot>>

\* One pass of the `for word in sorted_words` loop, lines 447-456.
GroupWord ==
  /\ Active(grp)
  /\ grp.pc = "loop"
  /\ grp.k <= Len(grp.sorted_words)
  /\ LET word == grp.sorted_words[grp.k]
         r == FirstRowWithin(grp.rows, word, GroupTolerance)
     IN grp' = [grp EXCEPT
                  !.rows = IF r # 0 THEN [@ EXCEPT ![r].members = @ \cup {grp.k}]
                           ELSE Append(@, [top |-> word.top, members |-> {grp.k}]),
                  !.k = @ + 1]
  /\ UNCHANGED <<plVars, units, units2, vot>>

\* Line 458.
GroupReturn ==
  /\ Active(grp)
  /\ grp.pc = "loop"
  /\ grp.k > Len(grp.sorted_words)
  /\ grp' = [grp EXCEPT !.pc = "done"]
  /\ UNCHANGED <<plVars, units, units2, vot>>

GroupNext ==
  \/ GroupSort
  \/ GroupWord
  \/ GroupReturn

SpecGroup == GroupInit /\ [][GroupNext]_vars

-----------------------------------------------------------------------------
(* Properties of the handler and the pipeline driver *)

PageSet(stream) == {stream[i] : i \in 1..Len(stream)} \ {HeaderRec, NoneRec, EmptyHeaderRec}

Uploaded(k) == s3[Steps[k].step]

\* C1: once a stage has raised (while running, writing or uploading), no
\* stage after it is ever started, and when the handler is done the stored
\* status of an existing job is failed (unless the job store refused the
\* final write).
C1_FatalStops ==
  /\ hist.failedStage # 0 => \A k \in hist.started : k <= hist.failedStage
  /\ (pc = "done" /\ hist.failedStage # 0 /\ jobStatus # "absent" /\ ~hist.finalFault)
       => jobStatus = "failed"

C1_Witness ==
  /\ pc = "done"
  /\ hist.failedStage \in 2..(NSteps - 1)
  /\ hist.started = 1..hist.failedStage
  /\ jobStatus = "failed"

\* C2: for a message whose pipeline raised, handler main never returns
\* normally: the error leaves main.
C2_HandlerRaises ==
  (pc = "done" /\ hist.raisedOut) => hist.result = "raised"

C4_Sequential ==
  /\ Cardinality(hist.active) <= 1
  /\ \A k \in hist.started : \A j \in 1..(k - 1) : j \in hist.completed
  /\ \A k \in hist.completed :
       /\ Steps[k].step \in DOMAIN s3
       /\ Uploaded(k) = Items(Steps[k].step)
  /\ \A r \in hist.reads :
       \E j \in hist.completed :
         j < r.stage /\ Steps[j].step = r.src /\ Steps[j].key = r.key

C4_Witness ==
  /\ pc = "done"
  /\ hist.completed = 1..NSteps
  /\ \E r \in hist.reads : r.stage = 5 /\ r.key = "column_range"
  /\ Len(Uploaded(3)) = MaxDocPages

\* C5 as stated: every stage from CleanData (3) to FormatClean (8) outputs
\* exactly the page numbers of its predecessor (CleanData: the pages of the
\* PDF).
C5_PageSetsEqual ==
  \A k \in 3..8 : k \in hist.completed =>
    PageSet(Uploaded(k)) =
      IF k = 3 THEN 0..(doc.pages - 1) ELSE PageSet(Uploaded(k - 1))

\* C5 amended: stages 3 to 7 output exactly the page numbers of their
\* predecessor; FormatClean outputs those pages of its predecessor that
\* hold at least one valid row.
C5_PageSetsAmended ==
  /\ \A k \in 3..7 : k \in hist.completed =>
       PageSet(Uploaded(k)) =
         IF k = 3 THEN 0..(doc.pages - 1) ELSE PageSet(Uploaded(k - 1))
  /\ 8 \in hist.completed =>
       PageSet(Uploaded(8)) = {p \in PageSet(Uploaded(7)) : doc.valid[p] > 0}

C5_Witness ==
  /\ 8 \in hist.completed
  /\ PageSet(Uploaded(7)) = 0..(MaxDocPages - 1)
  /\ PageSet(Uploaded(8)) # PageSet(Uploaded(7))
  /\ PageSet(Uploaded(8)) # {}

-----------------------------------------------------------------------------
(* Properties of the ColumnGroups join *)

\* C6: one output record per clean_data record, in clean_data order, and
\* the range applied to page p is the column_range record of page p or the
\* empty range, never the record of another page.
C6_PageAligned ==
  Active(join) =>
    /\ Len(join.out) = join.i
    /\ \A k \in 1..Len(join.out) :
         /\ join.out[k].page_number = Clean(join.order, k)
         /\ join.out[k].column_range
              \in {ColumnRangeOf(join.out[k].page_number), EmptyRange}

C6_Witness ==
  /\ Active(join)
  /\ join.i = JoinPages
  /\ join.evicted # {}
  /\ \E k \in 1..Len(join.out) :
       join.out[k].column_range = EmptyRange /\ join.out[k].page_number \in join.evicted
  /\ \E k \in 1..Len(join.out) :
       join.out[k].column_range = ColumnRangeOf(join.out[k].page_number)

\* The records still to come can all arrive at most MaxLate records after
\* their page's position in clean_data.
Feasible ==
  \A u \in Pages \ join.read :
    Cardinality(join.read)
      + Cardinality({v \in Pages \ join.read :
                       CleanPos(join.order, v) <= CleanPos(join.order, u)})
    <= CleanPos(join.order, u) + MaxLate

\* The premise of C7 on the part of the streams seen so far.
C7_Premise ==
  /\ join.order = "asc"
  /\ ~join.late
  /\ join.ended => join.read = Pages
  /\ Feasible

\* C7: with clean_data ascending, the same pages in both streams and every
\* column_range record at most ten records late, the buffer never holds
\* more than ten entries, nothing is evicted and every page is joined with
\* its own record.
C7_Tolerates ==
  (Active(join) /\ C7_Premise) =>
    /\ join.peak <= BufferLimit
    /\ join.evicted = {}
    /\ \A k \in 1..Len(join.out) :
         join.out[k].column_range = ColumnRangeOf(join.out[k].page_number)

C7_Witness ==
  /\ Active(join)
  /\ C7_Premise
  /\ join.i = JoinPages
  /\ join.peak = BufferLimit

-----------------------------------------------------------------------------
(* Properties of ExtractColumnRange *)

\* C8: in the record a page yields, the ranges of two distinct headers do
\* not overlap.
C8_NoOverlap ==
  (Active(rng) /\ rng.pc = "yield") =>
    \A i, j \in DOMAIN rng.column_range :
      i # j =>
        ~is_intersection([x0 |-> rng.column_range[i][1], x1 |-> rng.column_range[i][2]],
                         [x0 |-> rng.column_range[j][1], x1 |-> rng.column_range[j][2]])

-----------------------------------------------------------------------------
(* Properties of FormatCleaner *)

\* The typed value of a key of the mapped row, whatever the loop did.
Typed(key) == Convert(key, Get(fmt.mapped, key), fmt.date_country_format)

\* C9: an emitted row has a non-null date and a non-null balance or amount,
\* and a row is dropped exactly when its typed date is null or both its
\* typed balance and its amount are null.
C9_DropExactly ==
  (Active(fmt) /\ fmt.pc = "done") =>
    /\ fmt.result = "emitted" =>
         /\ Get(fmt.row, "date") # NoneValue
         /\ Get(fmt.row, "balance") # NoneValue \/ Get(fmt.row, "amount") # NoneValue
    /\ fmt.result = "dropped" <=>
         \/ Typed("date") = NoneValue
         \/ Typed("balance") = NoneValue /\ Typed("amount") = NoneValue

C9_Witness ==
  /\ Active(fmt)
  /\ fmt.pc = "done"
  /\ fmt.result = "emitted"
  /\ Get(fmt.row, "balance") = NoneValue
  /\ Get(fmt.mapped, "balance") # NoneValue
  /\ Get(fmt.mapped, "date") # Get(fmt.row, "date")

-----------------------------------------------------------------------------
(* Properties of BuildRows *)

\* C10: every emitted row has y_top <= y_bottom and encloses every word
\* merged into one of its items in stage A and every item put into it in
\* stage B.
C10_RowsEnclose ==
  (Active(rws) /\ rws.pc \in {"yield", "done"}) =>
    \A r \in 1..Len(rws.rows) :
      LET row == rws.rows[r] IN
      /\ row.y_top <= row.y_bottom
      /\ \A i \in 1..Len(row.items) :
           /\ row.y_top <= row.items[i].top /\ row.items[i].bottom <= row.y_bottom
           /\ \A w \in row.items[i].members :
                row.y_top <= w.top /\ w.bottom <= row.y_bottom

C10_Witness ==
  /\ Active(rws)
  /\ rws.pc = "done"
  /\ Len(rws.rows) >= 1
  /\ Len(rws.rows[1].items) = 2
  /\ \E i \in 1..Len(rws.rows[1].items) : Cardinality(rws.rows[1].items[i].members) = 2
  /\ rws.rows[1].y_top < rws.rows[1].y_bottom

-----------------------------------------------------------------------------
(* Properties of MergeRows *)

BoxContains(outer, inner) ==
  /\ outer.y_top <= inner.y_top
  /\ outer.x_left <= inner.x_left
  /\ outer.y_bottom >= inner.y_bottom
  /\ outer.x_right >= inner.x_right

\* C11: for every merge MergeRows makes, in the anchor pass or the pairwise
\* pass, the box of the merged row contains the box of the row merged into
\* and the box of the row merged from.
C11_BoxMonotone ==
  Active(mrg) =>
    \A e \in mrg.merges : BoxContains(e.result, e.into) /\ BoxContains(e.result, e.from)

C11_Witness ==
  /\ Active(mrg)
  /\ mrg.pc = "done"
  /\ \E e \in mrg.merges :
       /\ e.pass = 1
       /\ e.result.y_bottom > e.into.y_bottom
       /\ e.result.y_top < e.from.y_top
       /\ e.result.x_left < e.from.x_left

-----------------------------------------------------------------------------
(* Properties of CleanData *)

Cleaned == Active(cln) /\ cln.pc \in {"yield", "done"}

NoDotRuns == \A k \in 1..Len(cln.words) : ~HasDotRun(cln.words[k].text)

IsFiller(word) == is_fake_hyphen_filler(word.text) \/ is_fake_i_filler(word.text)

\* C12 (as stated): on a word list in which no text has a run of three or
\* more dots, clean_dot_padded_words returns the list unchanged.
C12_IdentityNoDots ==
  (Cleaned /\ NoDotRuns) => cln.cleaned_words = cln.words

\* C12 (amended): on a word list in which no text has a run of three or
\* more dots, clean_dot_padded_words returns, unchanged and in order, the
\* words that are neither a pure hyphen sequence nor a pure run of the
\* letter i; it is the identity when the list has no such word.
C12_IdentityAmended ==
  (Cleaned /\ NoDotRuns) =>
    cln.cleaned_words = SelectSeq(cln.words, LAMBDA w : ~IsFiller(w))

C12_Witness ==
  /\ Cleaned /\ NoDotRuns
  /\ cln.pc = "done"
  /\ Len(cln.words) = 2
  /\ cln.words[1].text # cln.words[2].text
  /\ \A k \in 1..2 : ~IsFiller(cln.words[k]) /\ "." \in {cln.words[k].text[i] : i \in 1..Len(cln.words[k].text)}
  /\ cln.cleaned_words = cln.words

-----------------------------------------------------------------------------
(* Properties of score_parsed_result *)

\* C13: the score score_parsed_result returns (kept in hundredths) lies
\* between 0.00 and 10.00, for every list of rows.
C13_ScoreInRange ==
  (Active(scr) /\ scr.pc = "done") => scr.result.score \in 0..1000

C13_Witness ==
  /\ Active(scr)
  /\ scr.pc = "done"
  /\ Cardinality(Checks(scr.sorted_rows)) = 2
  /\ scr.sorted_rows # scr.rows
  /\ scr.result.score = 500

-----------------------------------------------------------------------------
(* Temp files of the pipeline driver *)

\* A local spill file: the download of a stage input or the file a stage's
\* records are written to before the upload.
IsSpillFile(f) == f.name[1] \in {"input", "output"}

\* run() is over: it returned or raised into handler.main.
RunIsOver == pc \in {"main_except", "done"}

\* C14: every spill file carries the job id as its prefix, and once run has
\* returned or raised, a stage failing in mid-stream included, no input or
\* output spill file is left in the temp directory.
C14_SpillFilesCleaned ==
  /\ \A f \in temp_dir : IsSpillFile(f) => f.prefix = msg.job_id
  /\ RunIsOver => \A f \in temp_dir : ~IsSpillFile(f)

\* A stage failed after writing part of its stream while an input file was
\* still on disk; run raised and its finally clause removed the file.
C14_Witness ==
  /\ pc = "main_except"
  /\ hist.midStream
  /\ \E f \in hist.cleaned : f.name[1] = "input"
  /\ temp_dir = {}

-----------------------------------------------------------------------------
(* Object-store failures *)

\* C15: a stage whose download of an input, upload of its spill or upload of
\* a final output file failed does not complete, and no job is marked
\* success once an object-store operation of its run has failed.
C15_StoreErrorsFatal ==
  /\ \A e \in hist.objFault : e.stage \notin hist.completed
  /\ ~hist.successAfter

\* The part of C15 that holds: a failed download of a stage input or a
\* failed upload of a stage spill fails the stage that issued it.
StreamErrorsFatal ==
  \A e \in hist.objFault : e.op \in {"download", "spill"} => e.stage \notin hist.completed

-----------------------------------------------------------------------------
(* The two job-store back-ends *)

\* C16: the back-ends are interchangeable: no update_job_status call the
\* pipeline issues is rejected by the selected back-end where the other
\* back-end, given the same call, yields the new status.
C16_BackendsInterchangeable == hist.rejected = {}

\* The calls of C16 other than SaveFormat's: both back-ends agree on them.
OtherCallsAgree ==
  \A c \in PipelineCalls \ {<<"success", "download_data">>} : \A down \in BOOLEAN :
    BackendUpdate("supabase", jobStatus, c[1], c[2], down)
      = BackendUpdate("dynamo", jobStatus, c[1], c[2], down)

-----------------------------------------------------------------------------
(* Documents without a header row *)

HeaderExtractionIdx == CHOOSE i \in 1..NSteps : Steps[i].step = "HeaderExtraction"

\* C17: for a document with text none of whose pages yields a header
\* candidate row, HeaderExtraction fails instead of emitting a header
\* record, and no later stage is started.
C17_HeadersNotFound ==
  (doc.text /\ ~doc.candidates) =>
    /\ HeaderExtractionIdx \notin hist.completed
    /\ hist.started \subseteq {HeaderExtractionIdx}

-----------------------------------------------------------------------------
(* The path ExtractColumnRange takes on a page *)

\* The ranges of the page in hand are computed (not copied) and final.
RangesComputed == Active(rng) /\ rng.pc = "yield" /\ rng.path # "copy"

-----------------------------------------------------------------------------
(* Canonical labels after HeaderRecognition *)

\* What _map_headers gives for the i-th header of the list.
Claim(i) == _map_headers(hdr.headers[i], hdr.fuzz)

\* The headers that map to the canonical c, and those that carry it.
Claimants(c) == {i \in 1..Len(hdr.headers) : Claim(i)[1] = c}
Carriers(c) == {i \in 1..Len(hdr.headers) : hdr.recognized_headers[i].text = c}

\* C19: among the headers that map to one canonical label at most one, a
\* highest-scoring claimant with a score of at least 70, carries the label;
\* every header carries its canonical or its original text.
C19_OneClaimant ==
  (Active(hdr) /\ hdr.pc = "done") =>
    /\ \A c \in Canonicals :
         /\ Cardinality(Carriers(c)) <= 1
         /\ \A i \in Carriers(c) :
              /\ i \in Claimants(c)
              /\ Claim(i)[2] >= AssignThreshold
              /\ \A j \in Claimants(c) : Claim(j)[2] <= Claim(i)[2]
    /\ \A i \in 1..Len(hdr.headers) :
         hdr.recognized_headers[i].text \in {hdr.headers[i], Claim(i)[1]}

\* The header texts differ from each other and from the canonical labels.
DistinctTexts ==
  /\ \A i, j \in 1..Len(hdr.headers) : i # j => hdr.headers[i] # hdr.headers[j]
  /\ \A i \in 1..Len(hdr.headers) : hdr.headers[i] \notin Canonicals

\* The part of C19 that holds: it holds for header lists of distinct texts.
OneClaimantOfDistinct == (Active(hdr) /\ DistinctTexts) => C19_OneClaimant

-----------------------------------------------------------------------------
(* The default page limit *)

\* C20: a message without a `pages` field is processed with the default of
\* 10: the stages see at most the first 10 pages of the PDF.
C20_DefaultPages ==
  (Active(lim) /\ ~lim.message.has_pages) =>
    /\ lim.pc \in {"stages", "done"} => lim.limited <= DefaultPages
    /\ \A p \in lim.seen : p < DefaultPages

\* The limit of a message that carries a page count is applied.
GivenLimitApplies ==
  (Active(lim) /\ lim.message.pages # None) => \A p \in lim.seen : p < lim.message.pages[1]

-----------------------------------------------------------------------------
(* The scorer on rows without balances *)

NoBalance(rows) == \A i \in 1..Len(rows) : rows[i].balance = None

\* C21: for a non-empty list of rows none of which has a balance the scorer
\* returns score 0.0 and mode "post".
C21_NoBalanceZeroPost ==
  (Active(scr) /\ scr.pc = "done" /\ scr.rows # <<>> /\ NoBalance(scr.rows)) =>
    scr.result = [score |-> 0, mode |-> "post"]

\* Three rows without balances, dated out of order and carrying amounts,
\* have been scored.
C21_Witness ==
  /\ Active(scr) /\ scr.pc = "done"
  /\ Len(scr.rows) = 3 /\ NoBalance(scr.rows)
  /\ scr.sorted_rows # scr.rows
  /\ \E i \in 1..3 : scr.rows[i].credit # None
  /\ scr.result = [score |-> 0, mode |-> "post"]

-----------------------------------------------------------------------------
(* The two modes of the scorer under exact arithmetic *)

\* The run in which no comparison with 0.01 was decided by rounding: both
\* counts are the counts of the exact differences.
ExactRun ==
  /\ scr.post_matches = Cardinality(Within(scr.sorted_rows, TRUE))
  /\ scr.pre_matches = Cardinality(Within(scr.sorted_rows, FALSE))

\* C30: with exact arithmetic the post-mode and the pre-mode check match at
\* the same indices, so the mode is "post" for every non-empty input and null
\* for the empty one, never "pre".
C30_ExactModeNeverPre ==
  (Active(scr) /\ scr.pc = "done") =>
    /\ scr.rows = <<>> => scr.result.mode = "None"
    /\ (scr.rows # <<>> /\ ExactRun) =>
         /\ Within(scr.sorted_rows, TRUE) = Within(scr.sorted_rows, FALSE)
         /\ scr.post_matches = scr.pre_matches
         /\ scr.result.mode = "post"

\* An exact run over two checks of which one matches and one does not.
C30_Witness ==
  /\ Active(scr) /\ scr.pc = "done"
  /\ ExactRun
  /\ Cardinality(Checks(scr.sorted_rows)) = 2
  /\ Cardinality(Within(scr.sorted_rows, FALSE)) = 1
  /\ scr.result.mode = "post"

-----------------------------------------------------------------------------
(* Stage A of BuildRows and the rule lines of the page *)

\* The sentences group_rows has built for the two columns.
Sentences ==
  UNION { {rws.grouped_rows[h][k] : k \in 1..Len(rws.grouped_rows[h])} : h \in 1..2 }

\* C22: stage A never merges two consecutive words of a column when a
\* horizontal rule line of the page lies strictly between the previous word's
\* bottom and the next word's top.
C22_RuleLineSeparates ==
  (Active(rws) /\ rws.pc # "group") =>
    \A s \in Sentences : \A j \in s.joins : \A y_line \in rws.page_lines :
      ~(j.prev.bottom < y_line /\ y_line < j.next.top)

-----------------------------------------------------------------------------
(* Stage B of BuildRows and the order of its input *)

\* The items stage B receives, in the order step 1 flattens them.
FlatItems == rws.grouped_rows[1] \o rws.grouped_rows[2]

Reordered(items, perm) == [i \in 1..Len(items) |-> items[perm[i]]]

Count(items, x) == Cardinality({i \in 1..Len(items) : items[i] = x})

\* The same rows: as many, each with the same bounds and the same items up to
\* their order inside the row.
SameRows(a, b) ==
  /\ Len(a) = Len(b)
  /\ \A r \in 1..Len(a) :
       /\ a[r].y_top = b[r].y_top /\ a[r].y_bottom = b[r].y_bottom
       /\ Len(a[r].items) = Len(b[r].items)
       /\ \A i \in 1..Len(a[r].items) :
            Count(a[r].items, a[r].items[i]) = Count(b[r].items, a[r].items[i])

\* C24: stage B is order-independent: every input order of the same items
\* under the same tolerance gives the same rows with the same bounds; only
\* the order of the items inside a row can differ.
C24_OrderIndependent ==
  (Active(rws) /\ rws.pc \in {"yield", "done"}) =>
    \A perm \in Permutations(1..Len(FlatItems)) :
      SameRows(rws.rows, RowsOfItems(Reordered(FlatItems, perm), rws.y_tolerance))

\* Three items, two of them with the same top and different bottoms, given
\* out of top order, have been put into two rows.
C24_Witness ==
  /\ Active(rws) /\ rws.pc = "done"
  /\ Len(FlatItems) = 3
  /\ Len(rws.rows) = 2
  /\ \E i, j \in 1..3 : /\ i < j /\ FlatItems[i].top > FlatItems[j].top
  /\ \E i, j \in 1..3 : /\ FlatItems[i].top = FlatItems[j].top
                        /\ FlatItems[i].bottom # FlatItems[j].bottom

-----------------------------------------------------------------------------
(* The rows of stage B *)

RECURSIVE Concat(_)
Concat(seqs) == IF seqs = <<>> THEN <<>> ELSE Head(seqs) \o Concat(Tail(seqs))

\* The items in the order the clustering loop takes them.
SortedItems == SortByTop(SelectSeq(FlatItems, LAMBDA item : item # NoneItem))

\* C26: the rows of a page are in increasing y_top order, any two of them are
\* further apart than the tolerance, and a row receives no item after a newer
\* row has been opened: the rows hold consecutive stretches of the sorted items.
C26_RowsOrderedDisjoint ==
  (Active(rws) /\ rws.pc \in {"yield", "done"}) =>
    /\ \A r, q \in 1..Len(rws.rows) :
         r < q => /\ rws.rows[r].y_top < rws.rows[q].y_top
                  /\ rws.rows[r].y_bottom + rws.y_tolerance < rws.rows[q].y_top
    /\ Concat([r \in 1..Len(rws.rows) |-> rws.rows[r].items]) = SortedItems

\* Tolerance 1: a row of two items, then a second row two units below.
C26_Witness ==
  /\ Active(rws) /\ rws.pc = "done"
  /\ rws.y_tolerance = 1
  /\ Len(rws.rows) = 2
  /\ Len(rws.rows[1].items) = 2

-----------------------------------------------------------------------------
(* The word-voting fallback after the table has ended *)

\* C23: once a proposed expansion would intersect another header's range
\* after more than 10 text lines, expansion stops for the page: no later word
\* changes the range of a header.
C23_ExpansionStops ==
  (Active(vot) /\ vot.stopped) => vot.header_range = vot.at_stop

-----------------------------------------------------------------------------
(* The rows of HeaderExtraction *)

\* The row that holds the word at position i of sorted_words.
RowHolding(i) == CHOOSE r \in 1..Len(grp.rows) : i \in grp.rows[r].members

\* C25: the words are clustered by single linkage on the top-sorted
\* sequence: two consecutive words whose tops differ by at most 5 are in the
\* same row, so a chain of such words forms a single row.
C25_SingleLinkage ==
  (Active(grp) /\ grp.pc = "done") =>
    \A i \in 1..(Len(grp.sorted_words) - 1) :
      grp.sorted_words[i + 1].top - grp.sorted_words[i].top <= GroupTolerance =>
        RowHolding(i) = RowHolding(i + 1)

\* What the loop compares with: every word of a row lies within the
\* tolerance of the word that opened the row.
WithinFirstOfRow ==
  (Active(grp) /\ grp.pc = "done") =>
    \A r \in 1..Len(grp.rows) : \A i \in grp.rows[r].members :
      Abs(grp.sorted_words[i].top - grp.rows[r].top) <= GroupTolerance

-----------------------------------------------------------------------------
(* MergeRows keeps every row once *)

\* The page's rows in the order both passes index them.
SortedPage == SortRows(mrg.page_rows)

\* The merges that took the row at position i, and those made into it.
TakenBy(i) == {e \in mrg.merges : e.from_idx = i}
TakenInto(i) == {e \in mrg.merges : e.into_idx = i}

\* C27: every input row of the page goes into exactly one output row, as
\* itself or merged: a row is merged away at most once, a row merged away
\* takes no row itself, and each merge shortens the output by one row; an
\* anchor is never merged into another row; the output is no longer than the
\* input.
C27_RowsKeptOnce ==
  (Active(mrg) /\ mrg.pc \in {"yield", "done"}) =>
    /\ Len(mrg.all_merged) + Cardinality(mrg.merges) = Len(mrg.page_rows)
    /\ Len(mrg.all_merged) <= Len(mrg.page_rows)
    /\ \A e \in mrg.merges :
         /\ e.into_idx \in 1..Len(SortedPage) /\ e.from_idx \in 1..Len(SortedPage)
         /\ e.into_idx # e.from_idx
         /\ ~is_row_valid(SortedPage[e.from_idx])
    /\ \A i \in 1..Len(SortedPage) :
         /\ Cardinality(TakenBy(i)) <= 1
         /\ TakenBy(i) # {} => TakenInto(i) = {}

\* An anchor has taken a row of its page in the first pass.
C27_Witness ==
  /\ Active(mrg) /\ mrg.pc = "done"
  /\ Len(mrg.page_rows) = MaxMergeRows
  /\ Len(mrg.all_merged) = MaxMergeRows - 1
  /\ \E e \in mrg.merges : e.pass = 1 /\ is_row_valid(SortedPage[e.into_idx])

-----------------------------------------------------------------------------
(* The job status over one run *)

\* C28: within one run the job status only moves forward: once it has been
\* set to success it is not set to failed or processing afterwards.
C28_StatusForward ==
  [][(jobStatus = "success" => ~(jobStatus' \in {"failed", "processing"}))]_vars

\* The status is never set back to processing.
NeverBackToProcessing ==
  [][(jobStatus \in {"success", "failed"} => ~(jobStatus' = "processing"))]_vars

\* C29: a job the handler has set to processing has left that status when
\* the handler returns for the message: it is success or failed.
C29_ProcessingLeft ==
  pc = "done" => jobStatus # "processing"

\* A PDF whose run ends without an error of the pipeline or of the job store
\* leaves processing.
PdfRunLeavesProcessing ==
  (pc = "done" /\ hist.result = "200" /\ msg.source_key = "statement.pdf"
     /\ msg.job_id = "j1") => jobStatus # "processing"

====
